---- MODULE Spec2Model ----
(***************************************************************************)
(* Model of the AutoQuotes -> Shopify sync service: the pricing engine     *)
(* (backend/src/services/PricingEngine.ts) and the storage it persists its *)
(* rules to (backend/src/models/Settings.ts), the override resolvers       *)
(* (GoogleSheetsAdapter, GoogleDriveAdapter), the storefront client        *)
(* (ShopifyClient), the sync stage (SyncManager) and the routes that write *)
(* the staged products (backend/src/models/Product.ts), and the routes     *)
(* that start the bulk pipelines (backend/src/index.ts).                   *)
(*                                                                         *)
(* JavaScript values are tagged records.  A number is an exact rational    *)
(* n/d in lowest terms; the binary rounding error of IEEE doubles is not   *)
(* modelled, so toFixed(2) rounds an exact decimal tie away from zero.     *)
(* A string is a sequence of one-character strings, so that toUpperCase,   *)
(* split and parseFloat are computed character by character.               *)
(***************************************************************************)
EXTENDS Integers, Sequences, FiniteSets, TLC

VARIABLES
    rules,   \* PricingEngine.rules: the Map, as its entries in insertion order
    db,      \* the Settings document 'global_settings': NoDoc or its pricingRules array
    tasks,   \* the async calls in flight (loadRules, setRule), each at an await
    calls,   \* number of async calls started so far
    last,    \* the last step taken: the call, its arguments and what it returned
    googleSheets, \* GoogleSheetsAdapter: sheets client configured, cache, lastFetch
    googleDrive,  \* GoogleDriveAdapter: drive client configured
    shopify,      \* ShopifyClient (configured) and the storefront's listings
    products,     \* the Product collection (the staged products)
    stateFile,    \* data/sync_state.json: absent, or its parsed content
    now           \* Date.now()

vars == <<rules, db, tasks, calls, last,
          googleSheets, googleDrive, shopify, products, stateFile, now>>

\* the state outside the pricing engine
world == <<googleSheets, googleDrive, shopify, products, stateFile, now>>

(***************************** bounds **************************************)

\* longest discount chain drawn exhaustively over ChainAlphabet
MaxChainLen == 3
\* number of setRule / on-demand loadRules calls after construction
MaxCalls == 1
\* minutes the clock advances after the process has started
MaxMinutes == 6
\* number of getVariants calls waiting for the spreadsheet service at a time
MaxInFlight == 2
\* number of sync runs started
MaxRuns == 1

\* images of a document beyond which no image is uploaded
MaxImages == 2

(************************** JavaScript values ******************************)

Undefined == [t |-> "undefined"]
NaN == [t |-> "NaN"]
Str(s) == [t |-> "string", s |-> s]
Null == [t |-> "null"]
\* an array value, where null or undefined may stand in its place
Arr(a) == [t |-> "array", a |-> a]

Abs(x) == IF x < 0 THEN -x ELSE x

RECURSIVE GCD(_, _)
GCD(a, b) == IF b = 0 THEN a ELSE GCD(b, a % b)

\* the number n/d (d > 0), in lowest terms
Num(n, d) ==
    LET g == GCD(Abs(n), d)
    IN  [t |-> "number", n |-> n \div g, d |-> d \div g]

IsNumber(v) == v.t = "number"

\* ToBoolean: 0, NaN, undefined, null and '' are falsy; an object (a rule, an
\* array, the empty array too) is truthy
Truthy(v) ==
    CASE v = Undefined -> FALSE
      [] v = Null -> FALSE
      [] v = NaN -> FALSE
      [] "t" \in DOMAIN v /\ v.t = "number" -> v.n # 0
      [] "t" \in DOMAIN v /\ v.t = "string" -> Len(v.s) > 0
      [] OTHER -> TRUE

\* a || b
Or(a, b) == IF Truthy(a) THEN a ELSE b

\* a * b: undefined converts to NaN, NaN is absorbing
Mul(a, b) ==
    IF IsNumber(a) /\ IsNumber(b) THEN Num(a.n * b.n, a.d * b.d) ELSE NaN

\* a + b on numbers
Add(a, b) ==
    IF IsNumber(a) /\ IsNumber(b) THEN Num(a.n * b.d + b.n * a.d, a.d * b.d) ELSE NaN

\* a - b on numbers
Sub(a, b) ==
    IF IsNumber(a) /\ IsNumber(b) THEN Num(a.n * b.d - b.n * a.d, a.d * b.d) ELSE NaN

\* a / 100
Div100(a) == IF IsNumber(a) THEN Num(a.n, a.d * 100) ELSE NaN

\* a > 0: false for NaN and undefined
Gt0(a) == IsNumber(a) /\ a.n > 0

\* rule?.field
Opt(rule, field) == IF rule = Undefined THEN Undefined ELSE rule[field]

(****************************** strings ************************************)

LowerLetters ==
    <<"a", "b", "c", "d", "e", "f", "g", "h", "i", "j", "k", "l", "m",
      "n", "o", "p", "q", "r", "s", "t", "u", "v", "w", "x", "y", "z">>

UpperLetters ==
    <<"A", "B", "C", "D", "E", "F", "G", "H", "I", "J", "K", "L", "M",
      "N", "O", "P", "Q", "R", "S", "T", "U", "V", "W", "X", "Y", "Z">>

UpperChar(c) ==
    IF \E i \in 1..Len(LowerLetters) : LowerLetters[i] = c
    THEN UpperLetters[CHOOSE i \in 1..Len(LowerLetters) : LowerLetters[i] = c]
    ELSE c

\* String.prototype.toUpperCase on a sequence of characters
toUpperCase(s) == [i \in 1..Len(s) |-> UpperChar(s[i])]

LowerChar(c) ==
    IF \E i \in 1..Len(UpperLetters) : UpperLetters[i] = c
    THEN LowerLetters[CHOOSE i \in 1..Len(UpperLetters) : UpperLetters[i] = c]
    ELSE c

\* String.prototype.toLowerCase on a sequence of characters
toLowerCase(s) == [i \in 1..Len(s) |-> LowerChar(s[i])]

\* String.prototype.trim, white space being the space character
RECURSIVE trim(_)
trim(s) ==
    CASE Len(s) = 0 -> s
      [] s[1] = " " -> trim(Tail(s))
      [] s[Len(s)] = " " -> trim(SubSeq(s, 1, Len(s) - 1))
      [] OTHER -> s

\* String.prototype.split(sep) for a one-character separator
RECURSIVE split(_, _)
split(s, sep) ==
    IF \E i \in 1..Len(s) : s[i] = sep
    THEN LET i == CHOOSE j \in 1..Len(s) :
                      s[j] = sep /\ \A k \in 1..(j - 1) : s[k] # sep
         IN  <<SubSeq(s, 1, i - 1)>> \o split(SubSeq(s, i + 1, Len(s)), sep)
    ELSE <<s>>

Digits == <<"0", "1", "2", "3", "4", "5", "6", "7", "8", "9">>

IsDigit(c) == \E i \in 1..Len(Digits) : Digits[i] = c

DigitVal(c) == (CHOOSE i \in 1..Len(Digits) : Digits[i] = c) - 1

\* first index >= i of s that holds no digit (Len(s) + 1 when there is none)
RECURSIVE DigitsEnd(_, _)
DigitsEnd(s, i) ==
    IF i <= Len(s) /\ IsDigit(s[i]) THEN DigitsEnd(s, i + 1) ELSE i

\* first index >= i of s that holds no white space
RECURSIVE SkipSpace(_, _)
SkipSpace(s, i) ==
    IF i <= Len(s) /\ s[i] = " " THEN SkipSpace(s, i + 1) ELSE i

\* value of the digits s[from..to], read as a decimal integer
RECURSIVE DigitsValue(_, _, _)
DigitsValue(s, from, to) ==
    IF to < from THEN 0
    ELSE 10 * DigitsValue(s, from, to - 1) + DigitVal(s[to])

RECURSIVE Pow10(_)
Pow10(k) == IF k = 0 THEN 1 ELSE 10 * Pow10(k - 1)

\* parseFloat: the longest prefix [ws] [sign] digits [. digits] of s, NaN when
\* it holds no digit.  Exponents and 'Infinity' are outside the alphabets used.
parseFloat(s) ==
    LET i0 == SkipSpace(s, 1)
        signed == i0 <= Len(s) /\ s[i0] \in {"+", "-"}
        neg == signed /\ s[i0] = "-"
        i1 == IF signed THEN i0 + 1 ELSE i0
        i2 == DigitsEnd(s, i1)
        hasDot == i2 <= Len(s) /\ s[i2] = "."
        i3 == IF hasDot THEN DigitsEnd(s, i2 + 1) ELSE i2
        nInt == i2 - i1
        nFrac == IF hasDot THEN i3 - (i2 + 1) ELSE 0
        mag == DigitsValue(s, i1, i2 - 1) * Pow10(nFrac)
                 + (IF nFrac > 0 THEN DigitsValue(s, i2 + 1, i3 - 1) ELSE 0)
    IN  IF nInt + nFrac = 0 THEN NaN
        ELSE Num(IF neg THEN -mag ELSE mag, Pow10(nFrac))

\* the integer nearest to 100 * n / d, a tie going away from zero
Cents(n, d) ==
    IF n >= 0 THEN (200 * n + d) \div (2 * d)
    ELSE -((200 * (-n) + d) \div (2 * d))

\* the completion of an expression: a value, or a thrown TypeError
Value(v) == [throws |-> FALSE, value |-> v]
Throw == [throws |-> TRUE, value |-> Undefined]

\* parseFloat(x.toFixed(2)): TypeError on undefined, NaN stays NaN
toFixed2(x) ==
    CASE x = Undefined -> Throw
      [] x = NaN -> Value(NaN)
      [] OTHER -> Value(Num(Cents(x.n, x.d), 100))

(*************************** pricing rules *********************************)

AQ_NET == Str(<<"A", "Q", "_", "N", "E", "T">>)
LIST_DISCOUNT ==
    Str(<<"L", "I", "S", "T", "_", "D", "I", "S", "C", "O", "U", "N", "T">>)
DEFAULT == <<"D", "E", "F", "A", "U", "L", "T">>

\* interface PricingRule; an absent optional field is Undefined
Rule(manufacturer, markup, override, mode, chain) ==
    [manufacturer |-> manufacturer, markupPercentage |-> markup,
     overridePrice |-> override, pricingMode |-> mode, discountChain |-> chain]

\* interface PricingContext
Context(listPrice, netPrice, manufacturer) ==
    [ListPrice |-> listPrice, NetPrice |-> netPrice, Manufacturer |-> manufacturer]

\* Map.prototype.get
MapGet(m, k) ==
    IF \E i \in 1..Len(m) : m[i].k = k
    THEN m[CHOOSE i \in 1..Len(m) : m[i].k = k].v
    ELSE Undefined

\* Map.prototype.set: replaces the value of an existing key in place, else appends
MapSet(m, k, v) ==
    IF \E i \in 1..Len(m) : m[i].k = k
    THEN [i \in 1..Len(m) |-> IF m[i].k = k THEN [k |-> k, v |-> v] ELSE m[i]]
    ELSE Append(m, [k |-> k, v |-> v])

\* Array.from(map.values())
MapValues(m) == [i \in 1..Len(m) |-> m[i].v]

\* the discounts of a chain added up and taken off at once
RECURSIVE SumOf(_)
SumOf(discounts) ==
    IF discounts = <<>> THEN Num(0, 1)
    ELSE Add(Head(discounts), SumOf(Tail(discounts)))

ApplyDiscounts_summed(cost, discounts) ==
    Mul(cost, Sub(Num(1, 1), Div100(SumOf(discounts))))

\* the chain's discounts applied in order to cost
RECURSIVE ApplyDiscounts(_, _)
ApplyDiscounts(cost, discounts) ==
    IF discounts = <<>> THEN cost
    ELSE ApplyDiscounts(Mul(cost, Sub(Num(1, 1), Div100(Head(discounts)))),
                        Tail(discounts))

IsNotNaN(d) == d # NaN

\* calculateNetCost without the fallback of a non-positive net price to the list price
calculateNetCost_noFallback(context, rule) ==
    LET mode == Or(Opt(rule, "pricingMode"), AQ_NET)
    IN  IF mode = AQ_NET THEN Value(context.NetPrice)
        ELSE IF mode = LIST_DISCOUNT
        THEN LET chain == Or(Opt(rule, "discountChain"), Str(<<>>))
                 tokens == split(chain.s, "/")
                 parsed == [i \in 1..Len(tokens) |-> parseFloat(tokens[i])]
                 discounts == SelectSeq(parsed, IsNotNaN)
             IN  toFixed2(ApplyDiscounts(context.ListPrice, discounts))
        ELSE Value(context.ListPrice)

\* calculateNetCost taking a missing pricingMode for 'no mode' instead of AQ_NET
calculateNetCost_missingModeIsList(context, rule) ==
    LET mode == Opt(rule, "pricingMode")
    IN  IF mode = AQ_NET
        THEN Value(IF Gt0(context.NetPrice) THEN context.NetPrice
                   ELSE context.ListPrice)
        ELSE IF mode = LIST_DISCOUNT
        THEN LET chain == Or(Opt(rule, "discountChain"), Str(<<>>))
                 tokens == split(chain.s, "/")
                 parsed == [i \in 1..Len(tokens) |-> parseFloat(tokens[i])]
                 discounts == SelectSeq(parsed, IsNotNaN)
             IN  toFixed2(ApplyDiscounts(context.ListPrice, discounts))
        ELSE Value(context.ListPrice)

calculateNetCost(context, rule) ==
    LET mode == Or(Opt(rule, "pricingMode"), AQ_NET)
    IN  IF mode = AQ_NET
        THEN Value(IF Gt0(context.NetPrice) THEN context.NetPrice
                   ELSE context.ListPrice)
        ELSE IF mode = LIST_DISCOUNT
        THEN LET chain == Or(Opt(rule, "discountChain"), Str(<<>>))
                 tokens == split(chain.s, "/")
                 parsed == [i \in 1..Len(tokens) |-> parseFloat(tokens[i])]
                 discounts == SelectSeq(parsed, IsNotNaN)
             IN  toFixed2(ApplyDiscounts(context.ListPrice, discounts))
        ELSE Value(context.ListPrice)

\* the lookup without toUpperCase
ResolveRule_caseSensitive(map, manufacturer) ==
    LET own == MapGet(map, manufacturer)
    IN  IF own # Undefined THEN own ELSE MapGet(map, DEFAULT)

\* the rule calculatePrice resolves for a manufacturer name
ResolveRule(map, manufacturer) ==
    LET own == MapGet(map, toUpperCase(manufacturer))
    IN  IF own # Undefined THEN own ELSE MapGet(map, DEFAULT)

\* what calculatePrice returns
Result(netCost, finalPrice) ==
    [throws |-> FALSE, netCost |-> netCost, finalPrice |-> finalPrice]
Thrown == [throws |-> TRUE, netCost |-> Undefined, finalPrice |-> Undefined]

\* calculatePrice with the markup taken for the factor (without the '1 +')
calculatePrice_markupAsFactor(map, context) ==
    IF context.Manufacturer.t # "string" THEN Thrown
    ELSE
    LET rule == ResolveRule(map, context.Manufacturer.s)
        net == calculateNetCost(context, rule)
    IN  IF net.throws THEN Thrown
        ELSE IF Truthy(Opt(rule, "overridePrice"))
        THEN Result(net.value, rule.overridePrice)
        ELSE LET markup == Or(Opt(rule, "markupPercentage"), Num(0, 1))
                 finalPrice == Mul(net.value, Div100(markup))
                 roundedNet == toFixed2(net.value)
                 roundedFinal == toFixed2(finalPrice)
             IN  IF roundedNet.throws \/ roundedFinal.throws THEN Thrown
                 ELSE Result(roundedNet.value, roundedFinal.value)

calculatePrice(map, context) ==
    IF context.Manufacturer.t # "string" THEN Thrown
    ELSE
    LET rule == ResolveRule(map, context.Manufacturer.s)
        net == calculateNetCost(context, rule)
    IN  IF net.throws THEN Thrown
        ELSE IF Truthy(Opt(rule, "overridePrice"))
        THEN Result(net.value, rule.overridePrice)
        ELSE LET markup == Or(Opt(rule, "markupPercentage"), Num(0, 1))
                 finalPrice == Mul(net.value, Add(Num(1, 1), Div100(markup)))
                 roundedNet == toFixed2(net.value)
                 roundedFinal == toFixed2(finalPrice)
             IN  IF roundedNet.throws \/ roundedFinal.throws THEN Thrown
                 ELSE Result(roundedNet.value, roundedFinal.value)

(***************************** inputs **************************************)

NameAb == <<"a", "b">>
FOO == Str(<<"F", "O", "O">>)

ChainAlphabet == {"5", "0", "/", "x"}

\* every string over ChainAlphabet of length at most MaxChainLen
ChainsUpTo(n) == UNION {[1..k -> ChainAlphabet] : k \in 0..n}

\* chains of the documentation, and tokens with fractions, signs and blanks
ExampleChains ==
    { <<"5", "0", "/", "1", "0">>, <<"2", "0", "/", "1", "0">>,
      <<"1", "2", ".", "5">>, <<".", "5", "/", "5", ".">>, <<"-", "2", "0">>,
      <<" ", "5", "/", ".", "/", "1", "5", "0">>, <<"1", "0", "/", "5", "0">> }

Chains == {Str(c) : c \in ChainsUpTo(MaxChainLen) \cup ExampleChains}

ListPrices ==
    { Num(0, 1), Num(4, 1000), Num(101, 100), Num(100, 1), Num(200, 1) }

NetPrices == { Undefined, Num(0, 1), Num(50, 1), Num(10126, 1000), Num(-5, 1) }

Markups == { Undefined, Num(15, 1), Num(20, 1), Num(100, 1) }

Overrides == { Undefined, Num(0, 1), Num(30, 1), Num(9999, 1000) }

\* the rules calculatePrice is exercised with
PricingRules ==
    { Rule(Str(NameAb), m, o, mode, Undefined) :
        m \in Markups, o \in Overrides, mode \in {Undefined, Str(<<>>), AQ_NET, FOO} }
    \cup
    { Rule(Str(NameAb), m, o, LIST_DISCOUNT, c) :
        m \in Markups, o \in Overrides, c \in Chains \cup {Undefined} }

\* contexts of the declared type, NetPrice absent as in the sync stage's call
TypedContexts ==
    { Context(l, n, Str(NameAb)) : l \in ListPrices, n \in NetPrices }

\* contexts with a missing or malformed field
MalformedContexts ==
    { Context(l, n, Str(NameAb)) : l \in {Undefined, NaN}, n \in {Undefined, NaN, Num(50, 1)} }
    \cup { Context(l, NaN, Str(NameAb)) : l \in ListPrices }
    \cup { Context(l, Undefined, Undefined) : l \in ListPrices \cup {Undefined} }

PricingContexts == TypedContexts \cup MalformedContexts

(********************** the services beside the engine *********************)

\* private CACHE_TTL, in milliseconds
CACHE_TTL == 1000 * 60 * 5

\* the step of the clock: one minute, in milliseconds
Minute == 1000 * 60

\* Date.now() when the process starts: any time not within CACHE_TTL of the
\* epoch, counted from an origin that keeps the numbers small
StartTime == CACHE_TTL

\* new GoogleSheetsAdapter(): the sheets client exists when GOOGLE_SHEET_ID
\* and the credentials are set
NewGoogleSheets(configured) ==
    [configured |-> configured, cache |-> Null, lastFetch |-> 0]

\* new GoogleDriveAdapter(): the drive client exists when the folder id and
\* the credentials are set
NewGoogleDrive(configured) == [configured |-> configured]

\* new ShopifyClient(), and a storefront holding no listing; the storefront
\* numbers the listings it creates
NewShopify(configured) == [configured |-> configured, listings |-> <<>>, nextId |-> 1]

\* data/sync_state.json does not exist
NoStateFile == [exists |-> FALSE, lastSync |-> Undefined, enabledManufacturers |-> Undefined]

\* the services constructed without configuration, nothing staged
NoWorld ==
    /\ googleSheets = NewGoogleSheets(FALSE)
    /\ googleDrive = NewGoogleDrive(FALSE)
    /\ shopify = NewShopify(FALSE)
    /\ products = <<>>
    /\ stateFile = NoStateFile
    /\ now = StartTime

(************************** the pricing step *******************************)

\* the Settings collection: no 'global_settings' document, or the document's
\* pricingRules array
NoDoc == [exists |-> FALSE, pricingRules |-> <<>>]
Doc(rulesArray) == [exists |-> TRUE, pricingRules |-> rulesArray]

\* a caller evaluates pricingEngine.calculatePrice(context)
CalculatePrice(context) ==
    /\ last' = [op |-> "calculatePrice", context |-> context,
                result |-> calculatePrice(rules, context)]
    /\ UNCHANGED <<rules, db, tasks, calls>>
    /\ UNCHANGED world

\* the engine holding no rule, or the one rule set for manufacturer 'ab', and
\* a caller about to price one context
InitPricing ==
    /\ rules \in {<<>>} \cup
                 { MapSet(<<>>, toUpperCase(NameAb), r) : r \in PricingRules }
    /\ db = NoDoc
    /\ tasks = {}
    /\ calls = 0
    /\ last \in { [op |-> "request", context |-> c] : c \in PricingContexts }
    /\ NoWorld

\* the caller's call of calculatePrice
PriceRequest == last.op = "request" /\ CalculatePrice(last.context)

NextPricing == PriceRequest

SpecPricing == InitPricing /\ [][NextPricing]_vars

(************************ the engine and its storage ***********************)

\* the rule loadRules installs when the document or the connection is missing
DefaultRule == Rule(Str(DEFAULT), Num(0, 1), Undefined, Undefined, Undefined)

\* SettingsSchema.pricingRules: a stored rule keeps the three paths of the
\* schema; pricingMode and discountChain are no paths of it and are not stored
SchemaRule(r) ==
    Rule(r.manufacturer, r.markupPercentage, r.overridePrice, Undefined, Undefined)

SchemaCast(rulesArray) == [i \in 1..Len(rulesArray) |-> SchemaRule(rulesArray[i])]

\* settings.pricingRules.forEach(r => this.rules.set(r.manufacturer.toUpperCase(), r))
RECURSIVE LoadInto(_, _)
LoadInto(map, rulesArray) ==
    IF rulesArray = <<>> THEN map
    ELSE LoadInto(MapSet(map, toUpperCase(Head(rulesArray).manufacturer.s),
                         Head(rulesArray)),
                  Tail(rulesArray))

\* an async call suspended at an await
Task(id, kind, pc, manufacturer, rule, settings, rulesArray) ==
    [id |-> id, kind |-> kind, pc |-> pc, manufacturer |-> manufacturer,
     rule |-> rule, settings |-> settings, rulesArray |-> rulesArray]

At(task, pc) == [task EXCEPT !.pc = pc]

NameAB == <<"A", "B">>
NameC == <<"c">>

\* the calls of setRule: a rule of the shape the rules route builds (markup
\* alone) for 'ab' and for DEFAULT, and a rule with every field for 'ab'
SetRuleCalls ==
    { <<NameAb, Rule(Str(NameAb), Num(20, 1), Undefined, Undefined, Undefined)>>,
      <<NameAb, Rule(Str(NameAb), Num(10, 1), Num(30, 1), LIST_DISCOUNT,
                     Str(<<"5", "0">>))>>,
      <<DEFAULT, Rule(Str(DEFAULT), Num(20, 1), Undefined, Undefined, Undefined)>> }

\* what the settings collection may hold when the process starts
InitialDbs ==
    { NoDoc,
      Doc(<<Rule(Str(NameAb), Num(15, 1), Num(30, 1), Undefined, Undefined),
            Rule(Str(DEFAULT), Num(5, 1), Undefined, Undefined, Undefined)>>) }

EngineContexts ==
    { Context(Num(100, 1), Undefined, Str(m)) : m \in {NameAb, NameAB, NameC} }

\* new PricingEngine(): an empty Map and loadRules() started, not awaited
Init ==
    /\ rules = <<>>
    /\ db \in InitialDbs
    /\ tasks = { Task(0, "loadRules", "findOne", Undefined, Undefined, NoDoc, <<>>) }
    /\ calls = 0
    /\ last = [op |-> "constructor"]
    /\ NoWorld

\* loadRules() called on demand, up to its first await
LoadRules ==
    /\ calls < MaxCalls
    /\ calls' = calls + 1
    /\ tasks' = tasks \cup
                { Task(calls + 1, "loadRules", "findOne", Undefined, Undefined, NoDoc, <<>>) }
    /\ last' = [op |-> "loadRules"]
    /\ UNCHANGED <<rules, db>>
    /\ UNCHANGED world

\* the storage answers Settings.findOne
DbFindOne(task) ==
    /\ task \in tasks /\ task.pc = "findOne"
    /\ tasks' = (tasks \ {task}) \cup {[At(task, "findOneDone") EXCEPT !.settings = db]}
    /\ last' = [op |-> "db"]
    /\ UNCHANGED <<rules, db, calls>>
    /\ UNCHANGED world

\* Settings.findOne rejects: loadRules resumes in its catch, installs DEFAULT
\* and completes
DbFindOneFails(task) ==
    /\ task \in tasks /\ task.pc = "findOne"
    /\ rules' = MapSet(rules, DEFAULT, DefaultRule)
    /\ tasks' = tasks \ {task}
    /\ last' = [op |-> "loadRulesDone"]
    /\ UNCHANGED <<db, calls>>
    /\ UNCHANGED world

\* loadRules resumes with the answer of findOne: it installs the stored rules,
\* or installs DEFAULT and saves it when there is no document
LoadRulesResume(task) ==
    /\ task \in tasks /\ task.pc = "findOneDone"
    /\ \/ /\ task.settings.exists
          /\ rules' = LoadInto(<<>>, task.settings.pricingRules)
          /\ tasks' = tasks \ {task}
          /\ last' = [op |-> "loadRulesDone"]
       \/ /\ ~task.settings.exists
          /\ rules' = MapSet(rules, DEFAULT, DefaultRule)
          /\ tasks' = (tasks \ {task}) \cup
                      {[At(task, "update") EXCEPT !.rulesArray = MapValues(rules')]}
          /\ last' = [op |-> "saveRules"]
    /\ UNCHANGED <<db, calls>>
    /\ UNCHANGED world

\* a rule with the fields it lacks taken from the rule it replaces
MergedRule(old, rule) ==
    IF old = Undefined THEN rule
    ELSE [f \in DOMAIN rule |-> IF rule[f] = Undefined THEN old[f] ELSE rule[f]]

\* setRule updating the stored rule field by field
SetRule_merge(manufacturer, rule) ==
    /\ calls < MaxCalls
    /\ calls' = calls + 1
    /\ rules' = MapSet(rules, toUpperCase(manufacturer),
                       MergedRule(MapGet(rules, toUpperCase(manufacturer)), rule))
    /\ tasks' = tasks \cup
                { Task(calls + 1, "setRule", "update", Str(manufacturer), rule,
                       NoDoc, MapValues(rules')) }
    /\ last' = [op |-> "setRule", manufacturer |-> manufacturer, rule |-> rule,
                replaced |-> MapGet(rules, toUpperCase(manufacturer))]
    /\ UNCHANGED db
    /\ UNCHANGED world

\* setRule(manufacturer, rule) up to the await inside saveRules
SetRule(manufacturer, rule) ==
    /\ calls < MaxCalls
    /\ calls' = calls + 1
    /\ rules' = MapSet(rules, toUpperCase(manufacturer), rule)
    /\ tasks' = tasks \cup
                { Task(calls + 1, "setRule", "update", Str(manufacturer), rule,
                       NoDoc, MapValues(rules')) }
    /\ last' = [op |-> "setRule", manufacturer |-> manufacturer, rule |-> rule,
                replaced |-> MapGet(rules, toUpperCase(manufacturer))]
    /\ UNCHANGED db
    /\ UNCHANGED world

\* the storage applies Settings.findOneAndUpdate (upsert) of a saveRules
DbUpdate(task) ==
    /\ task \in tasks /\ task.pc = "update"
    /\ db' = Doc(SchemaCast(task.rulesArray))
    /\ tasks' = (tasks \ {task}) \cup {At(task, "updateDone")}
    /\ last' = [op |-> "db"]
    /\ UNCHANGED <<rules, calls>>
    /\ UNCHANGED world

\* the caller of saveRules goes on once saveRules has returned
Completed(task) ==
    IF task.kind = "setRule"
    THEN [op |-> "setRuleDone", manufacturer |-> task.manufacturer.s,
          rule |-> task.rule]
    ELSE [op |-> "loadRulesDone"]

\* Settings.findOneAndUpdate rejects: saveRules catches and logs the error and
\* returns, and its caller completes
DbUpdateFails(task) ==
    /\ task \in tasks /\ task.pc = "update"
    /\ tasks' = tasks \ {task}
    /\ last' = Completed(task)
    /\ UNCHANGED <<rules, db, calls>>
    /\ UNCHANGED world

\* saveRules resumes with the answer of findOneAndUpdate and returns, and its
\* caller (setRule or loadRules) completes
SaveRulesResume(task) ==
    /\ task \in tasks /\ task.pc = "updateDone"
    /\ tasks' = tasks \ {task}
    /\ last' = Completed(task)
    /\ UNCHANGED <<rules, db, calls>>
    /\ UNCHANGED world

\* getRules()
GetRules ==
    /\ last' = [op |-> "getRules", result |-> MapValues(rules)]
    /\ UNCHANGED <<rules, db, tasks, calls>>
    /\ UNCHANGED world

Next ==
    \/ LoadRules
    \/ \E c \in SetRuleCalls : SetRule(c[1], c[2])
    \/ \E task \in tasks : DbFindOne(task)
    \/ \E task \in tasks : DbFindOneFails(task)
    \/ \E task \in tasks : LoadRulesResume(task)
    \/ \E task \in tasks : DbUpdate(task)
    \/ \E task \in tasks : DbUpdateFails(task)
    \/ \E task \in tasks : SaveRulesResume(task)
    \/ GetRules
    \/ \E context \in EngineContexts : CalculatePrice(context)

Spec == Init /\ [][Next]_vars

(************************** GoogleSheetsAdapter ****************************)

\* row[k] of a row of the sheet: undefined past the end of the row
Cell(row, k) == IF k + 1 <= Len(row) THEN Str(row[k + 1]) ELSE Undefined

\* cell?.trim() || ''
TrimOrEmpty(cell) ==
    IF cell = Undefined THEN Str(<<>>) ELSE Or(Str(trim(cell.s)), Str(<<>>))

\* parseFloat(cell) || 0
ParseOrZero(cell) ==
    Or(IF cell = Undefined THEN NaN ELSE parseFloat(cell.s), Num(0, 1))

\* the variant a row of the sheet is mapped to
AQVariant(row) ==
    [modelNumber |-> TrimOrEmpty(Cell(row, 0)),
     optionName |-> TrimOrEmpty(Cell(row, 1)),
     optionValue |-> TrimOrEmpty(Cell(row, 2)),
     priceMod |-> ParseOrZero(Cell(row, 3)),
     skuMod |-> TrimOrEmpty(Cell(row, 4))]

\* rows.map(...).filter(v => v.modelNumber !== '')
MapRows(rows) ==
    SelectSeq([i \in 1..Len(rows) |-> AQVariant(rows[i])],
              LAMBDA v : v.modelNumber # Str(<<>>))

\* where a call of fetchAllVariants stands after a step: suspended at the
\* request for a range ("Variants" or "Sheet1"), or completed (await "") by
\* returning value or by throwing; gs is the adapter after the step
Outcome(await, gs, throws, value) ==
    [await |-> await, gs |-> gs, throws |-> throws, value |-> value]

\* fetchAllVariants up to its first await, at time t
fetchAllVariants(gs, t) ==
    IF Truthy(gs.cache) /\ t - gs.lastFetch < CACHE_TTL
    THEN Outcome("", gs, FALSE, gs.cache.a)
    ELSE IF ~gs.configured
         THEN Outcome("", gs, FALSE, <<>>)
         ELSE Outcome("Variants", gs, FALSE, <<>>)

\* fetchAllVariants from the rows of an answered request to its return
StoreRows(gs, t, rows) ==
    IF Len(rows) = 0
    THEN Outcome("", [gs EXCEPT !.cache = Arr(<<>>)], FALSE, <<>>)
    ELSE LET variants == MapRows(rows)
         IN  Outcome("", [gs EXCEPT !.cache = Arr(variants), !.lastFetch = t],
                     FALSE, variants)

\* an answer of the spreadsheet service: the rows of the range, an 'Unable to
\* parse range' error, or another error
SheetsOk(rows) == [ok |-> TRUE, rows |-> rows, parseRange |-> FALSE]
SheetsError(parseRange) == [ok |-> FALSE, rows |-> <<>>, parseRange |-> parseRange]

\* fetchAllVariants resumed by the answer for the range Variants!A2:E
VariantsTabAnswer(gs, t, resp) ==
    IF resp.ok THEN StoreRows(gs, t, resp.rows)
    ELSE IF resp.parseRange
         THEN Outcome("Sheet1", gs, FALSE, <<>>)
         ELSE Outcome("", gs, TRUE, <<>>)

\* fetchAllVariants resumed by the answer for the range Sheet1!A2:E
Sheet1Answer(gs, t, resp) ==
    IF resp.ok THEN StoreRows(gs, t, resp.rows)
    ELSE Outcome("", gs, FALSE, <<>>)

\* getVariants: the variants of a model number, compared in lower case
FilterModel(variants, modelNumber) ==
    SelectSeq(variants,
              LAMBDA v : toLowerCase(v.modelNumber.s) = toLowerCase(modelNumber))

\* a row of the sheet for the model 'ab': model number, option name, option
\* value, price modifier, SKU suffix
RowRed == <<NameAb, <<"c">>, <<"r">>, <<"1", "0">>, <<"-", "r">>>>
\* a row for the same model in other letter case and padded, with no number
\* as price modifier and no SKU cell
RowBlue == <<<<" ", "A", "B", " ">>, <<"c">>, <<"b">>, <<"x">>>>
\* a row with a blank model number, and a row for the model 'c'
RowBlank == <<<<" ">>, <<"c">>, <<"r">>, <<"5">>, <<"-", "x">>>>
RowC == <<NameC, <<"s">>, <<"l">>, <<"2", ".", "5">>, <<"-", "l">>>>

\* what the sheet may hold when a request is answered
SheetTables == { <<>>, <<RowRed>>, <<RowRed, RowBlank, RowBlue, RowC>> }

SheetsAnswers ==
    { SheetsOk(rows) : rows \in SheetTables }
        \cup { SheetsError(parseRange) : parseRange \in BOOLEAN }

\* a getVariants call suspended in fetchAllVariants at the request for a range
SheetTask(id, modelNumber, await) ==
    [id |-> id, kind |-> "getVariants", pc |-> await, modelNumber |-> modelNumber]

FreeId == CHOOSE i \in 1..(Cardinality(tasks) + 1) : \A task \in tasks : task.id # i

\* what a step of a getVariants call leaves in last: the step, whether the call
\* asked the spreadsheet service, the time, what it returned, and when the
\* service last answered with the rows of the sheet
SheetStep(op, modelNumber, external, result, fetched, fetchedAt) ==
    [op |-> op, modelNumber |-> modelNumber, external |-> external, at |-> now,
     result |-> result, fetched |-> fetched, fetchedAt |-> fetchedAt]

\* getVariants(modelNumber) is called: answered at once, or suspended at the
\* request for the Variants range
GetVariants(modelNumber) ==
    LET o == fetchAllVariants(googleSheets, now)
    IN  /\ Cardinality(tasks) < MaxInFlight
        /\ googleSheets' = o.gs
        /\ tasks' = IF o.await = "" THEN tasks
                    ELSE tasks \cup {SheetTask(FreeId, modelNumber, o.await)}
        /\ last' = SheetStep("getVariants", modelNumber, o.await # "",
                             FilterModel(o.value, modelNumber),
                             last.fetched, last.fetchedAt)
        /\ UNCHANGED <<rules, db, calls, googleDrive, shopify, products,
                       stateFile, now>>

\* the spreadsheet service answers the request a getVariants call waits for
SheetsAnswer(task, resp) ==
    LET o == IF task.pc = "Variants"
             THEN VariantsTabAnswer(googleSheets, now, resp)
             ELSE Sheet1Answer(googleSheets, now, resp)
    IN  /\ task \in tasks /\ task.kind = "getVariants"
        /\ googleSheets' = o.gs
        /\ tasks' = (tasks \ {task}) \cup
                    (IF o.await = "" THEN {} ELSE {[task EXCEPT !.pc = o.await]})
        /\ last' = SheetStep(CASE o.await # "" -> "getVariantsRetry"
                               [] o.throws -> "getVariantsThrew"
                               [] OTHER -> "getVariantsDone",
                             task.modelNumber, TRUE,
                             FilterModel(o.value, task.modelNumber),
                             last.fetched \/ resp.ok,
                             IF resp.ok THEN now ELSE last.fetchedAt)
        /\ UNCHANGED <<rules, db, calls, googleDrive, shopify, products,
                       stateFile, now>>

\* a minute passes
Tick ==
    /\ now < StartTime + MaxMinutes * Minute
    /\ now' = now + Minute
    /\ UNCHANGED <<rules, db, tasks, calls, last, googleSheets, googleDrive,
                   shopify, products, stateFile>>

\* a new adapter, with or without its configuration
InitSheets ==
    /\ now = StartTime
    /\ rules = <<>>
    /\ db = NoDoc
    /\ tasks = {}
    /\ calls = 0
    /\ last = SheetStep("constructor", <<>>, FALSE, <<>>, FALSE, 0)
    /\ googleSheets \in {NewGoogleSheets(TRUE), NewGoogleSheets(FALSE)}
    /\ googleDrive = NewGoogleDrive(FALSE)
    /\ shopify = NewShopify(FALSE)
    /\ products = <<>>
    /\ stateFile = NoStateFile

NextSheets ==
    \/ \E modelNumber \in {NameAb, NameC} : GetVariants(modelNumber)
    \/ \E task \in tasks : \E resp \in SheetsAnswers : SheetsAnswer(task, resp)
    \/ Tick

SpecSheets == InitSheets /\ [][NextSheets]_vars

(*************************** the sync payload *******************************)

\* a supplier product: models and pricing may be missing, pictures too
AQProduct(productId, mfrId, mfrName, models, pricing, pictures) ==
    [productId |-> productId, mfrId |-> mfrId, mfrName |-> mfrName,
     models |-> models, pricing |-> pricing, pictures |-> pictures]

\* what findImageOverride returns on a hit
OverrideImage(mimeType, base64) ==
    [t |-> "object", mimeType |-> mimeType, base64 |-> base64]

\* [a-z0-9]
IsAlnum(c) ==
    \/ \E i \in 1..Len(LowerLetters) : LowerLetters[i] = c
    \/ IsDigit(c)

\* a replacement of each character outside a-z0-9 by a hyphen of its own
ReplaceRuns_each(s, inRun) ==
    [i \in 1..Len(s) |-> IF IsAlnum(s[i]) THEN s[i] ELSE "-"]

\* s.replace(/[^a-z0-9]+/g, '-'); inRun: the previous character was replaced
RECURSIVE ReplaceRuns(_, _)
ReplaceRuns(s, inRun) ==
    CASE Len(s) = 0 -> <<>>
      [] Len(s) > 0 /\ IsAlnum(Head(s)) -> <<Head(s)>> \o ReplaceRuns(Tail(s), FALSE)
      [] OTHER -> (IF inRun THEN <<>> ELSE <<"-">>) \o ReplaceRuns(Tail(s), TRUE)

\* the handle of a listing
Handle(mfrName, modelNumber) ==
    ReplaceRuns(toLowerCase(mfrName \o <<"-">> \o modelNumber), FALSE)

\* aqProduct.pricing?.listPrice || 0
BasePrice(aqProduct) == Or(Opt(aqProduct.pricing, "listPrice"), Num(0, 1))

\* the image list: the supplier's pictures, or the override alone
Images(aqProduct, overrideImage) ==
    IF Truthy(overrideImage)
    THEN <<[src |-> Undefined, attachment |-> Str(overrideImage.base64)]>>
    ELSE IF Truthy(aqProduct.pictures)
         THEN [i \in 1..Len(aqProduct.pictures.a) |->
                  [src |-> aqProduct.pictures.a[i].url, attachment |-> Undefined]]
         ELSE <<>>

\* a storefront variant
ShopifyVariant(price, sku, option1) == [price |-> price, sku |-> sku, option1 |-> option1]

DefaultTitle == <<"D", "e", "f", "a", "u", "l", "t", " ", "T", "i", "t", "l", "e">>

\* the variants of the payload: one per custom variant, priced by the engine
\* on the list price plus the variant's modifier, or the default variant; the
\* price of a variant is what calculatePrice returned
ShopifyVariants(map, aqProduct, customVariants) ==
    LET modelNumber == aqProduct.models.mfrModel.s
    IN  IF Len(customVariants) > 0
        THEN [i \in 1..Len(customVariants) |->
                 ShopifyVariant(
                     calculatePrice(map,
                         Context(Add(BasePrice(aqProduct),
                                     Or(customVariants[i].priceMod, Num(0, 1))),
                                 Undefined, aqProduct.mfrName)),
                     modelNumber \o customVariants[i].skuMod.s,
                     customVariants[i].optionValue.s)]
        ELSE <<ShopifyVariant(
                   calculatePrice(map, Context(BasePrice(aqProduct), Undefined,
                                               aqProduct.mfrName)),
                   modelNumber, DefaultTitle)>>

\* the option dimension of the payload
Options(customVariants) ==
    IF Len(customVariants) > 0
    THEN Arr(<<[name |-> customVariants[1].optionName.s]>>)
    ELSE Undefined

\* the payload of a listing, with the values of its metafields model_number
\* and aq_id; body_html, product_type and the metafields of the dimensions,
\* texts copied from the product, are left out
ShopifyData(map, aqProduct, overrideImage, customVariants) ==
    [t |-> "object",
     title |-> aqProduct.mfrName.s \o <<" ">> \o aqProduct.models.mfrModel.s,
     vendor |-> aqProduct.mfrName.s,
     handle |-> Handle(aqProduct.mfrName.s, aqProduct.models.mfrModel.s),
     options |-> Options(customVariants),
     variants |-> ShopifyVariants(map, aqProduct, customVariants),
     images |-> Images(aqProduct, overrideImage),
     model_number |-> aqProduct.models.mfrModel.s,
     aq_id |-> aqProduct.productId]

\* a call of calculatePrice threw while the variants were built
VariantsThrow(shopifyVariants) ==
    \E i \in 1..Len(shopifyVariants) : shopifyVariants[i].price.throws

(******************************* the handle ********************************)

\* longest manufacturer name and model number drawn exhaustively
MaxNameLen == 2

\* letters of both cases, a digit, the hyphen, the blank and the dot
HandleAlphabet == {"A", "b", "1", "-", " ", "."}

\* every string over HandleAlphabet of length at most n
NamesUpTo(n) == UNION {[1..k -> HandleAlphabet] : k \in 0..n}

\* a product with some manufacturer name and model number is to be synced
InitHandle ==
    /\ rules = <<>>
    /\ db = NoDoc
    /\ tasks = {}
    /\ calls = 0
    /\ last \in { [op |-> "request", mfrName |-> m, modelNumber |-> n] :
                     m \in NamesUpTo(MaxNameLen), n \in NamesUpTo(MaxNameLen) }
    /\ NoWorld

\* syncProduct computes the handle of the payload
HandleRequest ==
    /\ last.op = "request"
    /\ last' = [op |-> "handle", mfrName |-> last.mfrName,
                modelNumber |-> last.modelNumber,
                handle |-> Handle(last.mfrName, last.modelNumber)]
    /\ UNCHANGED <<rules, db, tasks, calls>>
    /\ UNCHANGED world

NextHandle == HandleRequest

SpecHandle == InitHandle /\ [][NextHandle]_vars

(******************************* the supplier ******************************)

\* the id of the manufacturer enabled by default, and two other ids
AARCO == <<"m", "1">>
OtherMfr == <<"m", "2">>
ThirdMfr == <<"m", "3">>

\* getEnabledManufacturers()
getEnabledManufacturers(file) ==
    IF file.exists THEN Or(file.enabledManufacturers, Arr(<<AARCO>>)).a
    ELSE <<AARCO>>

\* the ids of the supplier's products; identifiers are abbreviated to 'p' and
\* a digit, and the test for the form of an identifier with them
IdP1 == <<"p", "1">>
IdP2 == <<"p", "2">>
IdP3 == <<"p", "3">>
IdP4 == <<"p", "4">>
isUUID(input) == Len(input) = 2 /\ input[1] = "p" /\ IsDigit(input[2])

\* the products of the supplier: one with list price and two pictures, one
\* without model number, one of another manufacturer with neither pricing
\* nor pictures, and one of a third manufacturer whose name and model number
\* are those of the first in other letter case
ProductAb ==
    AQProduct(IdP1, AARCO, Str(<<"A", "c">>), [mfrModel |-> Str(NameAb)],
              [listPrice |-> Num(100, 1), netPrice |-> Num(50, 1)],
              Arr(<<[url |-> Str(<<"u">>)], [url |-> Str(<<"v">>)]>>))
ProductNoModel ==
    AQProduct(IdP2, AARCO, Str(<<"A", "c">>), Undefined,
              [listPrice |-> Num(200, 1), netPrice |-> Num(0, 1)], Arr(<<>>))
ProductC ==
    AQProduct(IdP3, OtherMfr, Str(NameC), [mfrModel |-> Str(NameC)],
              Undefined, Undefined)
ProductAB ==
    AQProduct(IdP4, ThirdMfr, Str(<<"A", "C">>), [mfrModel |-> Str(toUpperCase(NameAb))],
              [listPrice |-> Num(300, 1), netPrice |-> Num(0, 1)], Undefined)

\* response.data.data of GET /manufacturers/{id}/products
Catalog(mfrId) ==
    CASE mfrId = AARCO -> <<ProductAb, ProductNoModel>>
      [] mfrId = OtherMfr -> <<ProductC>>
      [] mfrId = ThirdMfr -> <<ProductAB>>
      [] OTHER -> <<>>

\* what getProductDetails(id) returns when the supplier answers: the product
\* of that id, or null for the error the supplier answers an unknown id with
ProductDetails(id) ==
    LET all == Catalog(AARCO) \o Catalog(OtherMfr) \o Catalog(ThirdMfr)
    IN  IF \E i \in 1..Len(all) : all[i].productId = id
        THEN all[CHOOSE i \in 1..Len(all) : all[i].productId = id]
        ELSE Null

\* products.find(p => p.models?.mfrModel === model
\*                    || p.models?.mfrModel === model.trim()), or undefined
FindModel(list, model) ==
    LET hit(p) == /\ Truthy(p.models)
                  /\ \/ p.models.mfrModel = Str(model)
                     \/ p.models.mfrModel = Str(trim(model))
    IN  IF \E i \in 1..Len(list) : hit(list[i])
        THEN list[CHOOSE i \in 1..Len(list) :
                     hit(list[i]) /\ \A k \in 1..(i - 1) : ~hit(list[k])]
        ELSE Undefined

(***************************** the staging store ***************************)

\* a document of the Product collection: its _id, the id the supplier gives
\* the product, the manufacturer, the model number, the status, the error of the
\* last sync, the time of the last ingest, the images and the variants
ProductRow(aqProduct, status, lastIngested) ==
    [id |-> <<"o">> \o Tail(aqProduct.productId),
     aqProductId |-> aqProduct.productId, aqMfrId |-> aqProduct.mfrId,
     aqModelNumber |-> aqProduct.models.mfrModel.s, status |-> status,
     syncError |-> IF status = "error" THEN Str(<<"e">>) ELSE Undefined,
     lastIngested |-> lastIngested,
     images |-> IF Truthy(aqProduct.pictures)
                THEN [i \in 1..Len(aqProduct.pictures.a) |->
                         [src |-> aqProduct.pictures.a[i].url]]
                ELSE <<>>,
     variants |-> <<>>]

\* the collection holding the supplier's products that have a model number,
\* each with status staged
StagedRows ==
    <<ProductRow(ProductAb, "staged", 0), ProductRow(ProductC, "staged", 0)>>

(************************** user-defined models ****************************)

\* Array.from(new Set(models)): the first occurrence of each element, in order
RECURSIVE Unique(_)
Unique(s) ==
    IF Len(s) = 0 THEN <<>>
    ELSE LET init == Unique(SubSeq(s, 1, Len(s) - 1))
         IN  IF \E i \in 1..Len(init) : init[i] = s[Len(s)]
             THEN init ELSE Append(init, s[Len(s)])

\* name.replace(/\.[^/.]+$/, ""): the name without its extension
StripExt(name) ==
    IF \E i \in 1..(Len(name) - 1) :
          /\ name[i] = "."
          /\ \A k \in (i + 1)..Len(name) : name[k] \notin {".", "/"}
    THEN LET i == CHOOSE j \in 1..(Len(name) - 1) :
                      /\ name[j] = "."
                      /\ \A k \in (j + 1)..Len(name) : name[k] \notin {".", "/"}
         IN  SubSeq(name, 1, i - 1)
    ELSE name

\* getAllImageModels from the names files.list answered with
ImageModels(names) ==
    Unique([i \in 1..Len(SelectSeq(names, LAMBDA n : Len(n) > 0)) |->
               StripExt(SelectSeq(names, LAMBDA n : Len(n) > 0)[i])])

\* getAllVariantModels from the variants of the sheet: their model numbers
VariantModels(variants) ==
    Unique([i \in 1..Len(variants) |-> variants[i].modelNumber.s])

\* the names of the files the override folder may hold when it is listed: none,
\* or files named after a model, after an id and after neither
NameZ == <<"z">>
FileAb == NameAb \o <<".", "j">>
FileP3 == IdP3 \o <<".", "j">>
FileZ == NameZ
FolderListings == { <<>>, <<FileAb, FileP3, FileZ, FileAb>> }

(****************************** syncProduct ********************************)

\* the locals of syncProduct: the override image, the custom variants, the
\* payload (undefined until built), the listing found by handle, the error
\* caught ("" none; "getVariants", "calculatePrice" or "storefront" after what
\* threw it; "trial" for a rejection of the storefront whose body holds 'trial
\* accounts') and how the call ended ("" while it runs)
NoLocals ==
    [overrideImage |-> Null, customVariants |-> <<>>, shopifyData |-> Undefined,
     existing |-> Null, error |-> "", outcome |-> ""]

\* a call of syncAllProducts or syncSpecificProduct: the manufacturers it has
\* still to fetch (mfrs), the list fetched (list), the products it has still to
\* sync, the first being the one syncProduct works on (queue), the user models
\* still to look at (models), the input of syncSpecificProduct, the
\* manufacturers that call has still to search (scan) and the id it asks the
\* details of, the part of the run it is in (stage), the request it waits
\* for (pc), and the ids of the products it has asked the storefront to create
\* or update, one for each request (pushes)
SyncTask(id, kind, pc, queue, mfrs) ==
    [id |-> id, kind |-> kind, pc |-> pc, stage |-> "fetch", queue |-> queue,
     mfrs |-> mfrs, list |-> <<>>, models |-> <<>>, input |-> <<>>,
     scan |-> <<>>, productId |-> <<>>, pushes |-> <<>>, locals |-> NoLocals]

Product(task) == Head(task.queue)
ModelNumber(task) == Product(task).models.mfrModel.s

Goto(task, pc) == [task EXCEPT !.pc = pc]
Returned(task, outcome) == [task EXCEPT !.pc = "returned", !.locals.outcome = outcome]
Caught(task, error) == [task EXCEPT !.pc = "catch", !.locals.error = error]

\* the points between two requests that a call passes without building the
\* payload: of syncProduct, of syncAllProducts and of syncSpecificProduct
Internal ==
    {"entry", "overrideDone", "found", "catch", "retryFound", "returned",
     "imageModels", "variantModels", "mainLoop", "forceLoop", "specific",
     "scanLoop"}

\* syncAllProducts with the models of the variants sheet: the user models are
\* those of the override folder and of the sheet
WithVariantModels(task, variants) ==
    [Goto(task, "mainLoop") EXCEPT
        !.models = Unique(@ \o VariantModels(variants)), !.stage = "main"]

\* a product without model number that raises an error
Skipped_throws(task) == Caught(task, "model")

\* syncProduct returns for a product without model number
Skipped(task) == Returned(task, "skipped")

\* a call from one of its internal points to the next point
SyncStep(task) ==
    CASE task.pc = "entry" ->
           IF ~Truthy(Product(task).models) \/ ~Truthy(Product(task).models.mfrModel)
           THEN Skipped(task)
           ELSE IF ~googleDrive.configured
                THEN Goto(task, "overrideDone")
                ELSE Goto(task, "filesList")
      [] task.pc = "overrideDone" ->
           LET o == fetchAllVariants(googleSheets, now)
           IN  IF o.await = ""
               THEN [Goto(task, "variantsDone") EXCEPT
                        !.locals.customVariants = FilterModel(o.value, ModelNumber(task))]
               ELSE Goto(task, o.await)
      [] task.pc = "found" ->
           IF Truthy(task.locals.existing) THEN Goto(task, "update")
           ELSE IF ~shopify.configured THEN Returned(task, "synced")
                ELSE Goto(task, "create")
      [] task.pc = "catch" ->
           IF task.locals.error = "trial" /\ task.locals.shopifyData # Undefined
           THEN Goto(task, "retryFind")
           ELSE Returned(task, "failed")
      [] task.pc = "retryFound" ->
           IF Truthy(task.locals.existing) THEN Goto(task, "retryUpdate")
           ELSE Goto(task, "retryCreate")
      \* syncProduct has returned: the main list goes on with its next
      \* product, the user models with the next model, syncSpecificProduct
      \* returns the product
      [] task.pc = "returned" ->
           CASE task.stage = "main" ->
                  [Goto(task, "mainLoop") EXCEPT !.queue = Tail(@),
                                                 !.locals = NoLocals]
             [] task.stage = "force" ->
                  [Goto(task, "forceLoop") EXCEPT !.queue = <<>>,
                                                  !.locals = NoLocals]
             [] OTHER -> Goto(task, "done")
      \* syncAllProducts
      [] task.pc = "imageModels" ->
           IF ~googleDrive.configured
           THEN [Goto(task, "variantModels") EXCEPT !.stage = "models"]
           ELSE [Goto(task, "listImages") EXCEPT !.stage = "models"]
      [] task.pc = "variantModels" ->
           LET o == fetchAllVariants(googleSheets, now)
           IN  IF o.await = "" THEN WithVariantModels(task, o.value)
               ELSE Goto(task, o.await)
      [] task.pc = "mainLoop" ->
           IF Len(task.queue) > 0 THEN Goto(task, "syncProduct")
           ELSE [Goto(task, "forceLoop") EXCEPT !.stage = "force"]
      [] task.pc = "forceLoop" ->
           CASE Len(task.models) = 0 -> Goto(task, "saveLastSync")
             [] Len(task.models) > 0
                  /\ FindModel(task.list, Head(task.models)) # Undefined ->
                  [task EXCEPT !.models = Tail(@)]
             [] OTHER ->
                  [Goto(task, "specific") EXCEPT !.models = Tail(@),
                                                 !.input = Head(task.models)]
      \* syncSpecificProduct
      [] task.pc = "specific" ->
           IF isUUID(task.input)
           THEN [Goto(task, "getProductDetails") EXCEPT !.productId = task.input]
           ELSE [Goto(task, "scanLoop") EXCEPT
                    !.productId = task.input,
                    !.scan = getEnabledManufacturers(stateFile)]
      [] task.pc = "scanLoop" ->
           IF Len(task.scan) > 0 THEN Goto(task, "scanProducts")
           ELSE Goto(task, "getProductDetails")

\* a call run on to the request it next waits for, to the point where it
\* builds the payload, or to its end
RECURSIVE RunSync(_)
RunSync(task) == IF task.pc \in Internal THEN RunSync(SyncStep(task)) ELSE task

\* a step ends: the call runs on to its next request, or has ended
Continue(old, task) ==
    LET t == RunSync(task)
    IN  tasks' = (tasks \ {old}) \cup (IF t.pc = "done" THEN {} ELSE {t})

\* syncProduct run on to its next request or to its return
RECURSIVE RunProduct(_)
RunProduct(task) ==
    IF task.pc \in Internal \ {"returned"} THEN RunProduct(SyncStep(task)) ELSE task

\* what a step of syncProduct leaves in last: the product and the locals
SyncLog(op, task) ==
    [op |-> op, id |-> task.id, stage |-> task.stage, product |-> Product(task),
     locals |-> task.locals]

\* a step of syncProduct ends
Resume(old, task, op) ==
    /\ Continue(old, task)
    /\ last' = SyncLog(op, RunProduct(task))

\* syncProduct(aqProduct) is called for the next product of the main list
SyncProduct(task) ==
    /\ task \in tasks /\ task.pc = "syncProduct"
    /\ Resume(task, Goto(task, "entry"), "syncProduct")
    /\ UNCHANGED <<rules, db, calls, googleSheets, googleDrive, shopify,
                   products, stateFile, now>>

\* syncProduct resumes with the custom variants: it prices the variants and
\* builds the payload, in the catch if calculatePrice throws, and looks the
\* handle up
BuildPayload(task) ==
    /\ task \in tasks /\ task.pc = "variantsDone"
    /\ \E data \in {ShopifyData(rules, Product(task), task.locals.overrideImage,
                                 task.locals.customVariants)} :
          Resume(task,
                 IF VariantsThrow(data.variants)
                 THEN Caught(task, "calculatePrice")
                 ELSE IF ~shopify.configured
                      THEN [Goto(task, "found") EXCEPT !.locals.shopifyData = data]
                      ELSE [Goto(task, "findByHandle") EXCEPT !.locals.shopifyData = data],
                 "build")
    /\ UNCHANGED <<rules, db, calls, googleSheets, googleDrive, shopify,
                   products, stateFile, now>>

\* the base64 of the bytes of a file: of an empty file, and of another
Base64s == { <<>>, <<"Q", "Q">> }

\* the file store answers files.list of findImageOverride: an error, no
\* file, or a file
FilesList(task, answer) ==
    /\ task \in tasks /\ task.pc = "filesList"
    /\ answer \in {"error", "none", "file"}
    /\ Resume(task,
              IF answer = "file" THEN Goto(task, "filesGet")
              ELSE Goto(task, "overrideDone"),
              "filesList")
    /\ UNCHANGED <<rules, db, calls, googleSheets, googleDrive, shopify,
                   products, stateFile, now>>

\* the file store answers files.get of findImageOverride: an error (ok
\* FALSE), or the bytes of the file
FilesGet(task, ok, base64) ==
    /\ task \in tasks /\ task.pc = "filesGet"
    /\ Resume(task,
              [Goto(task, "overrideDone") EXCEPT
                  !.locals.overrideImage =
                      IF ok THEN OverrideImage(<<"i">>, base64) ELSE Null],
              "filesGet")
    /\ UNCHANGED <<rules, db, calls, googleSheets, googleDrive, shopify,
                   products, stateFile, now>>

\* the spreadsheet service answers the request getVariants waits for
SyncSheetsAnswer(task, resp) ==
    LET o == IF task.pc = "Variants"
             THEN VariantsTabAnswer(googleSheets, now, resp)
             ELSE Sheet1Answer(googleSheets, now, resp)
    IN  /\ task \in tasks /\ task.kind # "getVariants"
        /\ task.stage # "models"
        /\ task.pc \in {"Variants", "Sheet1"}
        /\ googleSheets' = o.gs
        /\ Resume(task,
                  CASE o.await # "" -> Goto(task, o.await)
                    [] o.await = "" /\ o.throws -> Caught(task, "getVariants")
                    [] OTHER ->
                         [Goto(task, "variantsDone") EXCEPT
                             !.locals.customVariants =
                                 FilterModel(o.value, ModelNumber(task))],
                  "getVariants")
        /\ UNCHANGED <<rules, db, calls, googleDrive, shopify, products,
                       stateFile, now>>

\* a lookup that finds no listing
FindByHandle_none(listings, handle) == Null

\* products[0] of shopify.product.list({ handle }), or null
FindByHandle(listings, handle) ==
    IF \E i \in 1..Len(listings) : listings[i].handle = handle
    THEN LET i == CHOOSE j \in 1..Len(listings) :
                      /\ listings[j].handle = handle
                      /\ \A k \in 1..(j - 1) : listings[k].handle # handle
         IN  [t |-> "object", id |-> listings[i].id]
    ELSE Null

\* the storefront after product.create: a new listing holding the payload
Created(shop, data) ==
    [shop EXCEPT !.listings = Append(@, [id |-> shop.nextId, handle |-> data.handle,
                                         data |-> data]),
                 !.nextId = @ + 1]

\* the storefront after product.update: the listing holds the payload
Updated(shop, id, data) ==
    [shop EXCEPT !.listings =
        [i \in 1..Len(@) |-> IF @[i].id = id
                              THEN [id |-> id, handle |-> data.handle, data |-> data]
                              ELSE @[i]]]

\* a retry that pushes the payload as it was
Pushed_withImages(task) == task.locals.shopifyData

\* the payload of the push the task waits for: without images in the retry
Pushed(task) ==
    IF task.pc \in {"retryCreate", "retryUpdate"}
    THEN [task.locals.shopifyData EXCEPT !.images = <<>>]
    ELSE task.locals.shopifyData

\* the storefront answers product.list of findProductByHandle
ShopifyList(task, ok) ==
    /\ task \in tasks /\ task.pc \in {"findByHandle", "retryFind"}
    /\ Resume(task,
              CASE ok ->
                     [Goto(task, IF task.pc = "findByHandle" THEN "found" ELSE "retryFound")
                        EXCEPT !.locals.existing =
                            FindByHandle(shopify.listings, task.locals.shopifyData.handle)]
                [] ~ok /\ task.pc = "findByHandle" -> Caught(task, "storefront")
                [] OTHER -> Returned(task, "failed"),
              "findProductByHandle")
    /\ UNCHANGED <<rules, db, calls, googleSheets, googleDrive, shopify,
                   products, stateFile, now>>

\* the storefront answers product.create or product.update: it applies the
\* push (error ""), or rejects it ("storefront", or "trial" for 'trial accounts')
ShopifyPush(task, error) ==
    /\ task \in tasks
    /\ task.pc \in {"create", "update", "retryCreate", "retryUpdate"}
    /\ error \in {"", "storefront", "trial"}
    /\ shopify' =
          IF error # "" THEN shopify
          ELSE IF task.pc \in {"create", "retryCreate"}
               THEN Created(shopify, Pushed(task))
               ELSE Updated(shopify, task.locals.existing.id, Pushed(task))
    /\ LET asked == [task EXCEPT !.pushes = Append(@, Product(task).productId)]
       IN  Resume(task,
                  CASE error = "" /\ task.pc \in {"create", "update"} ->
                         Returned(asked, "synced")
                    [] error = "" /\ task.pc \in {"retryCreate", "retryUpdate"} ->
                         Returned(asked, "recovered")
                    [] error # "" /\ task.pc \in {"create", "update"} ->
                         Caught(asked, error)
                    [] OTHER -> Returned(asked, "failed"),
                  "push")
    /\ UNCHANGED <<rules, db, calls, googleSheets, googleDrive, products,
                   stateFile, now>>

(************************** syncSpecificProduct ****************************)

\* what a step of a run outside syncProduct leaves in last
RunLog(op, task) == [op |-> op, id |-> task.id, stage |-> task.stage,
                     input |-> task.input]

\* the inputs of syncSpecificProduct: a model number, an id, neither
SpecificInputs == {NameAb, IdP3, NameZ}

\* syncSpecificProduct(input) is called and runs to its first request
SyncSpecificProduct(input) ==
    /\ calls < MaxRuns
    /\ calls' = calls + 1
    /\ LET task == [SyncTask(calls + 1, "syncSpecificProduct", "specific",
                             <<>>, <<>>)
                       EXCEPT !.stage = "specific", !.input = input]
       IN  /\ Continue(task, task)
           /\ last' = RunLog("syncSpecificProduct", task)
    /\ UNCHANGED <<rules, db, googleSheets, googleDrive, shopify, products,
                   stateFile, now>>

\* the supplier answers getProducts for the next manufacturer searched; an
\* error is logged and the search goes on
ScanProducts(task, ok) ==
    /\ task \in tasks /\ task.pc = "scanProducts"
    /\ LET found == IF ok THEN FindModel(Catalog(Head(task.scan)), task.input)
                    ELSE Undefined
       IN  Continue(task,
                    IF found # Undefined
                    THEN [Goto(task, "getProductDetails") EXCEPT
                             !.productId = found.productId, !.scan = <<>>]
                    ELSE [Goto(task, "scanLoop") EXCEPT !.scan = Tail(@)])
    /\ last' = RunLog(IF ok THEN "scanProducts" ELSE "scanFailed", task)
    /\ UNCHANGED <<rules, db, calls, googleSheets, googleDrive, shopify,
                   products, stateFile, now>>

\* the supplier answers getProductDetails (ok), or the request fails: without
\* a product syncSpecificProduct throws, to its caller or into the catch
\* around the user model's sync; with one it calls syncProduct
GetProductDetails(task, ok) ==
    /\ task \in tasks /\ task.pc = "getProductDetails"
    /\ LET product == IF ok THEN ProductDetails(task.productId) ELSE Null
       IN  IF product = Null
           THEN /\ Continue(task, IF task.stage = "force"
                                  THEN Goto(task, "forceLoop")
                                  ELSE Goto(task, "done"))
                /\ last' = RunLog("notFound", task)
           ELSE Resume(task, [Goto(task, "entry") EXCEPT !.queue = <<product>>],
                       "syncProduct")
    /\ UNCHANGED <<rules, db, calls, googleSheets, googleDrive, shopify,
                   products, stateFile, now>>

(**************************** syncAllProducts ******************************)

\* the run after a fetch of its first loop: it waits for the next
\* manufacturer's products, or goes on to the user-defined models
AfterFetch(task) ==
    IF Len(task.mfrs) > 0 THEN Goto(task, "getProducts")
    ELSE Goto(task, "imageModels")

\* syncAllProducts(forceFull) is called and runs to its first request
SyncAllProducts(forceFull) ==
    /\ calls < MaxRuns
    /\ calls' = calls + 1
    /\ LET task == AfterFetch(SyncTask(calls + 1, "syncAllProducts", "", <<>>,
                                       getEnabledManufacturers(stateFile)))
       IN  Continue(task, task)
    /\ last' = [op |-> "syncAllProducts", id |-> calls + 1, forceFull |-> forceFull,
                lastSync |-> IF forceFull \/ ~stateFile.exists THEN Undefined
                             ELSE stateFile.lastSync]
    /\ UNCHANGED <<rules, db, googleSheets, googleDrive, shopify, products,
                   stateFile, now>>

\* the supplier answers getProducts for the next enabled manufacturer; an
\* error ends the run in the catch of syncAllProducts
GetProducts(task, ok) ==
    /\ task \in tasks /\ task.pc = "getProducts"
    /\ IF ok
       THEN Continue(task,
                AfterFetch([task EXCEPT !.queue = @ \o Catalog(Head(task.mfrs)),
                                        !.list = @ \o Catalog(Head(task.mfrs)),
                                        !.mfrs = Tail(@)]))
       ELSE tasks' = tasks \ {task}
    /\ last' = RunLog(IF ok THEN "getProducts" ELSE "syncFailed", task)
    /\ UNCHANGED <<rules, db, calls, googleSheets, googleDrive, shopify,
                   products, stateFile, now>>

\* the file store answers files.list of getAllImageModels: an error, which
\* leaves no image model, or the names of the files
ListImages(task, ok, names) ==
    /\ task \in tasks /\ task.pc = "listImages"
    /\ Continue(task, [Goto(task, "variantModels") EXCEPT
                          !.models = IF ok THEN ImageModels(names) ELSE <<>>])
    /\ last' = RunLog("getAllImageModels", task)
    /\ UNCHANGED <<rules, db, calls, googleSheets, googleDrive, shopify,
                   products, stateFile, now>>

\* the spreadsheet service answers the request getAllVariantModels waits for;
\* an error thrown by fetchAllVariants ends the run in the catch of
\* syncAllProducts
ListVariantModels(task, resp) ==
    LET o == IF task.pc = "Variants"
             THEN VariantsTabAnswer(googleSheets, now, resp)
             ELSE Sheet1Answer(googleSheets, now, resp)
    IN  /\ task \in tasks /\ task.kind = "syncAllProducts"
        /\ task.stage = "models"
        /\ task.pc \in {"Variants", "Sheet1"}
        /\ googleSheets' = o.gs
        /\ IF o.await = "" /\ o.throws
           THEN tasks' = tasks \ {task}
           ELSE Continue(task, IF o.await # "" THEN Goto(task, o.await)
                               ELSE WithVariantModels(task, o.value))
        /\ last' = RunLog(IF o.await = "" /\ o.throws THEN "syncFailed"
                          ELSE "getAllVariantModels", task)
        /\ UNCHANGED <<rules, db, calls, googleDrive, shopify, products,
                       stateFile, now>>

\* the run has gone through its lists: saveLastSync writes the state file anew
SaveLastSync(task) ==
    /\ task \in tasks /\ task.pc = "saveLastSync"
    /\ stateFile' = [exists |-> TRUE, lastSync |-> Num(now, 1),
                     enabledManufacturers |-> Undefined]
    /\ tasks' = tasks \ {task}
    /\ last' = RunLog("syncComplete", task)
    /\ UNCHANGED <<rules, db, calls, googleSheets, googleDrive, shopify,
                   products, now>>

\* the rules the engine may hold: DEFAULT alone, or with a markup rule of the
\* manufacturer 'Ac'
SyncRules ==
    { MapSet(<<>>, DEFAULT, DefaultRule),
      MapSet(MapSet(<<>>, DEFAULT, DefaultRule), <<"A", "C">>,
             Rule(Str(<<"A", "c">>), Num(20, 1), Undefined, Undefined, Undefined)) }

\* the services constructed, each with or without its configuration, the
\* collection holding the staged products, the state file absent or naming
\* both manufacturers
InitSync ==
    /\ now = StartTime
    /\ rules \in SyncRules
    /\ db = NoDoc
    /\ tasks = {}
    /\ calls = 0
    /\ last = [op |-> "constructor"]
    /\ googleSheets \in {NewGoogleSheets(c) : c \in BOOLEAN}
    /\ googleDrive \in {NewGoogleDrive(c) : c \in BOOLEAN}
    /\ shopify \in {NewShopify(c) : c \in BOOLEAN}
    /\ products = StagedRows
    /\ stateFile \in {NoStateFile,
                       [exists |-> TRUE, lastSync |-> Undefined,
                        enabledManufacturers |-> Arr(<<AARCO, OtherMfr>>)]}

\* what the spreadsheet service may answer during a sync run: the rows of an
\* empty sheet or of the sheet with all the example rows, or an error
SyncSheetsAnswers ==
    { SheetsOk(rows) : rows \in {<<>>, <<RowRed, RowBlank, RowBlue, RowC>>} }
        \cup { SheetsError(parseRange) : parseRange \in BOOLEAN }

\* sync runs started one after the other
NextSync ==
    \/ tasks = {} /\ \E forceFull \in BOOLEAN : SyncAllProducts(forceFull)
    \/ tasks = {} /\ \E input \in SpecificInputs : SyncSpecificProduct(input)
    \/ \E task \in tasks : \E ok \in BOOLEAN : GetProducts(task, ok)
    \/ \E task \in tasks : \E ok \in BOOLEAN : \E names \in FolderListings :
           ListImages(task, ok, names)
    \/ \E task \in tasks : \E resp \in SyncSheetsAnswers : ListVariantModels(task, resp)
    \/ \E task \in tasks : SyncProduct(task)
    \/ \E task \in tasks : \E ok \in BOOLEAN : ScanProducts(task, ok)
    \/ \E task \in tasks : \E ok \in BOOLEAN : GetProductDetails(task, ok)
    \/ \E task \in tasks : BuildPayload(task)
    \/ \E task \in tasks : \E answer \in {"error", "none", "file"} :
           FilesList(task, answer)
    \/ \E task \in tasks : \E ok \in BOOLEAN : \E base64 \in Base64s :
           FilesGet(task, ok, base64)
    \/ \E task \in tasks : \E resp \in SyncSheetsAnswers : SyncSheetsAnswer(task, resp)
    \/ \E task \in tasks : \E ok \in BOOLEAN : ShopifyList(task, ok)
    \/ \E task \in tasks : \E error \in {"", "storefront", "trial"} :
           ShopifyPush(task, error)
    \/ \E task \in tasks : SaveLastSync(task)

SpecSync == InitSync /\ [][NextSync]_vars

\* a bulk run over two manufacturers whose products' handles coincide, with
\* the storefront configured and empty and no variants sheet
InitCollision ==
    /\ now = StartTime
    /\ rules = MapSet(<<>>, DEFAULT, DefaultRule)
    /\ db = NoDoc
    /\ tasks = {}
    /\ calls = 0
    /\ last = [op |-> "constructor"]
    /\ googleSheets = NewGoogleSheets(FALSE)
    /\ googleDrive \in {NewGoogleDrive(c) : c \in BOOLEAN}
    /\ shopify = NewShopify(TRUE)
    /\ products = StagedRows
    /\ stateFile = [exists |-> TRUE, lastSync |-> Undefined,
                    enabledManufacturers |-> Arr(<<AARCO, ThirdMfr>>)]

NextCollision ==
    \/ tasks = {} /\ \E forceFull \in BOOLEAN : SyncAllProducts(forceFull)
    \/ \E task \in tasks : \E ok \in BOOLEAN : GetProducts(task, ok)
    \/ \E task \in tasks : \E ok \in BOOLEAN : \E names \in FolderListings :
           ListImages(task, ok, names)
    \/ \E task \in tasks : SyncProduct(task)
    \/ \E task \in tasks : \E ok \in BOOLEAN : ScanProducts(task, ok)
    \/ \E task \in tasks : \E ok \in BOOLEAN : GetProductDetails(task, ok)
    \/ \E task \in tasks : BuildPayload(task)
    \/ \E task \in tasks : \E answer \in {"error", "none", "file"} :
           FilesList(task, answer)
    \/ \E task \in tasks : \E ok \in BOOLEAN : \E base64 \in Base64s :
           FilesGet(task, ok, base64)
    \/ \E task \in tasks : \E ok \in BOOLEAN : ShopifyList(task, ok)
    \/ \E task \in tasks : \E error \in {"", "storefront", "trial"} :
           ShopifyPush(task, error)
    \/ \E task \in tasks : SaveLastSync(task)

SpecCollision == InitCollision /\ [][NextCollision]_vars

\* a bulk run that has been called and waits for its first request
BulkRun(id) ==
    RunSync(AfterFetch(SyncTask(id, "syncAllProducts", "", <<>>,
                                getEnabledManufacturers(stateFile))))

\* a call of syncSpecificProduct that waits for its first request
SpecificRun(id, input) ==
    RunSync([SyncTask(id, "syncSpecificProduct", "specific", <<>>, <<>>)
                EXCEPT !.stage = "specific", !.input = input])

\* two triggers have arrived one right after the other, before any request of
\* the first run was answered: two bulk runs, or a bulk run and the sync of the
\* product 'ab'; the storefront is configured and empty, there is no override
\* folder and no variants sheet
InitOverlap ==
    /\ now = StartTime
    /\ rules = MapSet(<<>>, DEFAULT, DefaultRule)
    /\ db = NoDoc
    /\ calls = 2
    /\ last = [op |-> "constructor"]
    /\ googleSheets = NewGoogleSheets(FALSE)
    /\ googleDrive = NewGoogleDrive(FALSE)
    /\ shopify = NewShopify(TRUE)
    /\ products = StagedRows
    /\ stateFile = NoStateFile
    /\ tasks \in { {BulkRun(1), BulkRun(2)}, {BulkRun(1), SpecificRun(2, NameAb)} }

\* the runs in flight go on as their requests are answered, in any order
NextOverlap ==
    \/ \E task \in tasks : \E ok \in BOOLEAN : GetProducts(task, ok)
    \/ \E task \in tasks : SyncProduct(task)
    \/ \E task \in tasks : \E ok \in BOOLEAN : ScanProducts(task, ok)
    \/ \E task \in tasks : \E ok \in BOOLEAN : GetProductDetails(task, ok)
    \/ \E task \in tasks : BuildPayload(task)
    \/ \E task \in tasks : \E ok \in BOOLEAN : ShopifyList(task, ok)
    \/ \E task \in tasks : \E error \in {"", "storefront", "trial"} :
           ShopifyPush(task, error)
    \/ \E task \in tasks : SaveLastSync(task)

SpecOverlap == InitOverlap /\ [][NextOverlap]_vars

(***************************** the staged pipeline *************************)

\* the statuses the schema allows
Statuses == {"staged", "synced", "error"}

\* setEnabledManufacturers(ids): the state file is read, given the ids and
\* written; last keeps the set that was enabled before
SetEnabledManufacturers(ids) ==
    /\ stateFile' = [exists |-> TRUE,
                     lastSync |-> IF stateFile.exists THEN stateFile.lastSync
                                  ELSE Undefined,
                     enabledManufacturers |-> Arr(ids)]
    /\ last' = [op |-> "setEnabledManufacturers", ids |-> ids,
                before |-> getEnabledManufacturers(stateFile)]
    /\ UNCHANGED <<rules, db, tasks, calls, googleSheets, googleDrive, shopify,
                   products, now>>

\* the sets of manufacturers the settings route is given
EnabledSets == { <<AARCO>>, <<OtherMfr>>, <<AARCO, OtherMfr>> }

\* a request of a route: the document it works on (row), the status findById
\* loaded it with (read) and the request it waits for (pc); the other fields
\* are those of the syncSpecificProduct call the variants route ends with
RouteTask(id, kind, pc, row, read) ==
    [id |-> id, kind |-> kind, pc |-> pc, stage |-> "route", queue |-> <<>>,
     mfrs |-> <<>>, list |-> <<>>, models |-> <<>>, input |-> <<>>,
     scan |-> <<>>, productId |-> <<>>, locals |-> NoLocals,
     row |-> row, read |-> read]

\* what a step of a route leaves in last: the document and the status stored
\* for it before the step
RouteLog(op, task) ==
    [op |-> op, id |-> task.id, row |-> task.row,
     from |-> products[task.row].status]

\* a route has loaded a document with findById: the image route goes on to
\* upload the file, the variants route to save the document; the requests of
\* the routes are made one after the other
Find(kind, pc, row) ==
    /\ tasks = {}
    /\ row \in 1..Len(products)
    /\ kind = "imageUpload" => Len(products[row].images) < MaxImages
    /\ tasks' = tasks \cup {RouteTask(FreeId, kind, pc, row, products[row].status)}
    /\ last' = [op |-> "findById", id |-> FreeId, row |-> row]
    /\ UNCHANGED <<rules, db, calls, googleSheets, googleDrive, shopify,
                   products, stateFile, now>>

\* the status the image routes give the document
ImageStatus_error(status) == "error"

ImageStatus(status) == "staged"

\* POST /:productId/image, one file: the upload to the storefront's files is
\* answered; a failure ends the request, a URL is pushed to the images and
\* the document is saved as staged
ImageUploaded(task, ok) ==
    /\ task \in tasks /\ task.kind = "imageUpload" /\ task.pc = "upload"
    /\ products' =
          IF ok
          THEN [products EXCEPT ![task.row] =
                   [@ EXCEPT !.images = Append(@, [src |-> Str(<<"n">>)]),
                             !.status = ImageStatus(@)]]
          ELSE products
    /\ tasks' = tasks \ {task}
    /\ last' = RouteLog(IF ok THEN "imageUpload" ELSE "imageUploadFailed", task)
    /\ UNCHANGED <<rules, db, calls, googleSheets, googleDrive, shopify,
                   stateFile, now>>

\* DELETE /:productId/images with an image URL: the images of that URL are
\* removed and the document is saved as staged; without images, or without
\* one of that URL, the request is refused
ImageDelete(row, imageUrl) ==
    /\ row \in 1..Len(products)
    /\ LET doc == products[row]
           images == SelectSeq(doc.images, LAMBDA img : img.src # imageUrl)
       IN  IF Len(doc.images) = 0 \/ Len(images) = Len(doc.images)
           THEN /\ UNCHANGED products
                /\ last' = [op |-> "imageDeleteRefused", id |-> 0, row |-> row,
                            from |-> doc.status]
           ELSE /\ products' = [products EXCEPT ![row] =
                                   [doc EXCEPT !.images = images,
                                               !.status = ImageStatus(@)]]
                /\ last' = [op |-> "imageDelete", id |-> 0, row |-> row,
                            from |-> doc.status]
    /\ UNCHANGED <<rules, db, tasks, calls, googleSheets, googleDrive, shopify,
                   stateFile, now>>

\* the status the variants route gives the document it loaded
VariantStatus(status) == IF status = "synced" THEN "staged" ELSE status

\* the variants of a request as the route stores them: the SKU defaults to the
\* model number, the option name to 'Option 1'; the other fields are left out
ProcessedVariants(variants, doc) ==
    [i \in 1..Len(variants) |->
        [sku |-> Or(variants[i].sku, Str(doc.aqModelNumber)),
         option1 |-> Or(variants[i].option1,
                        Str(<<"O", "p", "t", "i", "o", "n", " ", "1">>))]]

\* the variants of the requests
VariantLists ==
    { <<>>, <<[sku |-> Undefined, option1 |-> Str(<<"c">>)]>> }

\* POST /:productId/variants: the variants replace the stored ones, the status
\* is written if the document was loaded synced, and syncSpecificProduct is
\* called with the _id of the document
VariantsReplace(task, variants) ==
    /\ task \in tasks /\ task.kind = "variantsReplace" /\ task.pc = "save"
    /\ products' = [products EXCEPT ![task.row] =
          [@ EXCEPT !.variants = ProcessedVariants(variants, products[task.row]),
                    !.status = IF VariantStatus(task.read) # task.read
                               THEN VariantStatus(task.read) ELSE @]]
    /\ Continue(task, [Goto(task, "specific") EXCEPT
                          !.input = products[task.row].id])
    /\ last' = RouteLog("variantsReplace", task)
    /\ UNCHANGED <<rules, db, calls, googleSheets, googleDrive, shopify,
                   stateFile, now>>

\* syncToShopify pushes a product, one of the run over the staged and synced
\* products or the one asked for: the document becomes synced, or error with
\* the serialized error
StagedSync(row, specific, ok) ==
    /\ row \in 1..Len(products)
    /\ specific \/ products[row].status \in {"staged", "synced"}
    /\ products' = [products EXCEPT ![row] =
                       IF ok THEN [@ EXCEPT !.status = "synced",
                                            !.syncError = Undefined]
                       ELSE [@ EXCEPT !.status = "error",
                                      !.syncError = Str(<<"e">>)]]
    /\ last' = [op |-> "syncToShopify", id |-> 0, row |-> row]
    /\ UNCHANGED <<rules, db, tasks, calls, googleSheets, googleDrive, shopify,
                   stateFile, now>>

\* reapplyPricingRules: every staged or synced product is staged
ReapplyPricingRules ==
    /\ products' = [i \in 1..Len(products) |->
                       IF products[i].status \in {"staged", "synced"}
                       THEN [products[i] EXCEPT !.status = "staged"]
                       ELSE products[i]]
    /\ last' = [op |-> "reapplyPricingRules", id |-> 0]
    /\ UNCHANGED <<rules, db, tasks, calls, googleSheets, googleDrive, shopify,
                   stateFile, now>>

\* the collection holding the product 'ab' in any status; the state file
\* absent or naming both manufacturers
InitStaging ==
    /\ now = StartTime
    /\ rules = MapSet(<<>>, DEFAULT, DefaultRule)
    /\ db = NoDoc
    /\ tasks = {}
    /\ calls = 0
    /\ last = [op |-> "constructor"]
    /\ googleSheets = NewGoogleSheets(FALSE)
    /\ googleDrive = NewGoogleDrive(FALSE)
    /\ shopify = NewShopify(FALSE)
    /\ products \in { <<ProductRow(ProductAb, status, 0)>> : status \in Statuses }
    /\ stateFile \in {NoStateFile,
                       [exists |-> TRUE, lastSync |-> Undefined,
                        enabledManufacturers |-> Arr(<<AARCO, OtherMfr>>)]}

NextStaging ==
    \/ \E ids \in EnabledSets : SetEnabledManufacturers(ids)
    \/ \E row \in 1..Len(products) : \E specific, ok \in BOOLEAN :
           StagedSync(row, specific, ok)
    \/ ReapplyPricingRules
    \/ \E row \in 1..Len(products) : Find("imageUpload", "upload", row)
    \/ \E task \in tasks : \E ok \in BOOLEAN : ImageUploaded(task, ok)
    \/ \E row \in 1..Len(products) : \E imageUrl \in {Str(<<"u">>), Str(<<"n">>)} :
           ImageDelete(row, imageUrl)
    \/ \E row \in 1..Len(products) : Find("variantsReplace", "save", row)
    \/ \E task \in tasks : \E variants \in VariantLists :
           VariantsReplace(task, variants)
    \/ \E task \in tasks : \E ok \in BOOLEAN : ScanProducts(task, ok)
    \/ \E task \in tasks : \E ok \in BOOLEAN : GetProductDetails(task, ok)

SpecStaging == InitStaging /\ [][NextStaging]_vars

(********************************* ingest **********************************)

\* the upsert of ingest: the document of the supplier's id is overwritten with
\* the product's data and the time, its status kept; or one is created, staged
Upsert_insert(rows, aqProduct, t) ==
    Append(rows, ProductRow(aqProduct, "staged", t))

Upsert(rows, aqProduct, t) ==
    IF \E i \in 1..Len(rows) : rows[i].aqProductId = aqProduct.productId
    THEN [i \in 1..Len(rows) |->
             IF rows[i].aqProductId = aqProduct.productId
             THEN [ProductRow(aqProduct, rows[i].status, t) EXCEPT
                      !.syncError = rows[i].syncError,
                      !.variants = rows[i].variants]
             ELSE rows[i]]
    ELSE Append(rows, ProductRow(aqProduct, "staged", t))

\* an ingest run: the manufacturers it has still to fetch and the products it
\* has still to upsert
IngestTask(id, pc, mfrs, queue) ==
    [id |-> id, kind |-> "ingest", pc |-> pc, mfrs |-> mfrs, queue |-> queue]

\* the run after a step: it upserts the next product, fetches the next
\* manufacturer's products, or has ended
IngestNext(task) ==
    CASE Len(task.queue) > 0 -> {[task EXCEPT !.pc = "upsert"]}
      [] Len(task.queue) = 0 /\ Len(task.mfrs) > 0 ->
           {[task EXCEPT !.pc = "getProducts"]}
      [] OTHER -> {}

\* ingest() is called, after the run before it has ended: it reads the
\* enabled manufacturers
Ingest ==
    /\ tasks = {}
    /\ tasks' = tasks \cup
                IngestNext(IngestTask(FreeId, "", getEnabledManufacturers(stateFile),
                                      <<>>))
    /\ last' = [op |-> "ingest", id |-> FreeId]
    /\ UNCHANGED <<rules, db, calls, googleSheets, googleDrive, shopify,
                   products, stateFile, now>>

\* the supplier answers the list of a manufacturer's products, of which those
\* with a model number are kept; a failure ends the fetch of that manufacturer
IngestProducts(task, ok) ==
    /\ task \in tasks /\ task.kind = "ingest" /\ task.pc = "getProducts"
    /\ tasks' = (tasks \ {task}) \cup
          IngestNext([task EXCEPT
              !.mfrs = Tail(@),
              !.queue = IF ok
                        THEN SelectSeq(Catalog(Head(task.mfrs)),
                                 LAMBDA p : Truthy(p.models)
                                            /\ Truthy(p.models.mfrModel))
                        ELSE <<>>])
    /\ last' = [op |-> IF ok THEN "ingestProducts" ELSE "ingestFailed",
                id |-> task.id]
    /\ UNCHANGED <<rules, db, calls, googleSheets, googleDrive, shopify,
                   products, stateFile, now>>

\* ingest upserts the next product of its list; last keeps the documents the
\* collection held for the product
IngestUpsert(task) ==
    /\ task \in tasks /\ task.kind = "ingest" /\ task.pc = "upsert"
    /\ products' = Upsert(products, Head(task.queue), now)
    /\ tasks' = (tasks \ {task}) \cup IngestNext([task EXCEPT !.queue = Tail(@)])
    /\ last' = [op |-> "upsert", id |-> task.id,
                productId |-> Head(task.queue).productId, at |-> now,
                before |-> SelectSeq(products,
                              LAMBDA r : r.aqProductId = Head(task.queue).productId)]
    /\ UNCHANGED <<rules, db, calls, googleSheets, googleDrive, shopify,
                   stateFile, now>>

\* the collection empty, or holding the product 'ab' ingested earlier
InitIngest ==
    /\ now = StartTime
    /\ rules = MapSet(<<>>, DEFAULT, DefaultRule)
    /\ db = NoDoc
    /\ tasks = {}
    /\ calls = 0
    /\ last = [op |-> "constructor"]
    /\ googleSheets = NewGoogleSheets(FALSE)
    /\ googleDrive = NewGoogleDrive(FALSE)
    /\ shopify = NewShopify(FALSE)
    /\ products \in { <<>>, <<ProductRow(ProductAb, "synced", 0)>> }
    /\ stateFile \in {NoStateFile,
                       [exists |-> TRUE, lastSync |-> Undefined,
                        enabledManufacturers |-> Arr(<<AARCO, OtherMfr>>)]}

NextIngest ==
    \/ \E ids \in EnabledSets : SetEnabledManufacturers(ids)
    \/ Ingest
    \/ \E task \in tasks : \E ok \in BOOLEAN : IngestProducts(task, ok)
    \/ \E task \in tasks : IngestUpsert(task)
    \/ Tick

SpecIngest == InitIngest /\ [][NextIngest]_vars

(**************************** the bulk triggers ****************************)

\* number of bulk triggers received
MaxTriggers == 2
\* number of steps of a pipeline beyond which it ends
MaxWork == 2

\* the routes that start a bulk pipeline: syncAllProducts, ingestFromAQ,
\* syncToShopify and reapplyPricingRules
BulkRoutes ==
    {"/api/sync", "/api/products/ingest", "/api/products/sync",
     "/api/products/pricing/apply"}

\* the status text each route answers with
Started(route) ==
    CASE route = "/api/sync" -> "Full Sync cycle started"
      [] route = "/api/products/ingest" -> "Ingest started"
      [] route = "/api/products/sync" -> "Sync to Shopify started"
      [] route = "/api/products/pricing/apply" -> "Pricing update started"

\* a request to a bulk route: the response sent (undefined before), the
\* number of steps its pipeline has made (work) and how the pipeline ended
\* ("" while it runs or before it is called)
Exchange(id, route) ==
    [id |-> id, route |-> route, response |-> Undefined, pc |-> "handler",
     work |-> 0, outcome |-> ""]

\* res.send(body): the response leaves, once, while the pipeline has made
\* the steps counted in work
Respond(x, body) ==
    IF x.response = Undefined
    THEN [x EXCEPT !.response = [status |-> 200, body |-> body, work |-> x.work]]
    ELSE x

\* the pipeline is called and runs to its first await
Call(x) == [x EXCEPT !.pc = "running", !.work = @ + 1]

\* a handler that calls the pipeline before it answers
Handler_callFirst(x) == Respond(Call(x), [status |-> Started(x.route)])

\* the handler of a bulk route: it answers, then calls the pipeline
Handler(x) == Call(Respond(x, [status |-> Started(x.route)]))

\* a request arrives at a bulk route
Trigger(route) ==
    /\ calls < MaxTriggers
    /\ calls' = calls + 1
    /\ tasks' = tasks \cup {Handler(Exchange(calls + 1, route))}
    /\ last' = [op |-> "trigger", id |-> calls + 1, route |-> route]
    /\ UNCHANGED <<rules, db>>
    /\ UNCHANGED world

\* a pipeline resumes after an await and runs to its next await
PipelineStep(x) ==
    /\ x \in tasks /\ x.pc = "running" /\ x.work < MaxWork
    /\ tasks' = (tasks \ {x}) \cup {[x EXCEPT !.work = @ + 1]}
    /\ last' = [op |-> "work", id |-> x.id]
    /\ UNCHANGED <<rules, db, calls>>
    /\ UNCHANGED world

\* a pipeline ends: it has done its work, it has caught and logged a failure
\* and returned, or it threw and the catch callback of the handler logs the
\* error
PipelineEnds(x, outcome) ==
    /\ x \in tasks /\ x.pc = "running"
    /\ outcome \in {"succeeded", "failed", "threw"}
    /\ tasks' = (tasks \ {x}) \cup {[x EXCEPT !.pc = "settled", !.outcome = outcome]}
    /\ last' = [op |-> IF outcome = "threw" THEN "console.error" ELSE "settled",
                id |-> x.id]
    /\ UNCHANGED <<rules, db, calls>>
    /\ UNCHANGED world

InitTriggers ==
    /\ rules = <<>>
    /\ db = NoDoc
    /\ tasks = {}
    /\ calls = 0
    /\ last = [op |-> "constructor"]
    /\ NoWorld

NextTriggers ==
    \/ \E route \in BulkRoutes : Trigger(route)
    \/ \E x \in tasks : PipelineStep(x)
    \/ \E x \in tasks : \E outcome \in {"succeeded", "failed", "threw"} :
           PipelineEnds(x, outcome)

SpecTriggers == InitTriggers /\ [][NextTriggers]_vars

(***************************** properties **********************************)

\* last.replaced, set by a setRule step, is the rule the step found under the
\* key; it is read by C10_Witness alone.

\* the last step was a call of calculatePrice
Priced == last.op = "calculatePrice"

\* a context of the declared type: a list price, a net price or none (the sync
\* stage passes none), a manufacturer name
Typed(context) ==
    /\ IsNumber(context.ListPrice)
    /\ IsNumber(context.NetPrice) \/ context.NetPrice = Undefined
    /\ context.Manufacturer.t = "string"

PricedTyped == Priced /\ Typed(last.context)

\* the rule the priced context resolves to (Undefined when there is none)
PricedRule == ResolveRule(rules, last.context.Manufacturer.s)

\* y is an amount of whole cents
IsCents(y) == IsNumber(y) /\ 100 % y.d = 0

\* y is x rounded to 2 decimals: whole cents, at most half a cent from x
IsRound2Of(x, y) ==
    /\ IsNumber(x) /\ IsCents(y)
    /\ 200 * Abs(y.n * x.d - x.n * y.d) <= x.d * y.d

\* listPrice taken through the chain token by token
RECURSIVE ChainProduct(_, _)
ChainProduct(price, tokens) ==
    IF tokens = <<>> THEN price
    ELSE LET d == parseFloat(Head(tokens))
         IN  ChainProduct(IF d = NaN THEN price
                          ELSE Num(price.n * (100 * d.d - d.n), price.d * 100 * d.d),
                          Tail(tokens))

ChainOf(rule) ==
    IF rule.discountChain = Undefined THEN <<>> ELSE rule.discountChain.s

\* the net price when positive, else the list price
NetOrList(context) ==
    IF Gt0(context.NetPrice) THEN context.NetPrice ELSE context.ListPrice

\* 1 + markup/100, an absent markup counting as 0
MarkupFactor(rule) ==
    IF Opt(rule, "markupPercentage") = Undefined THEN Num(1, 1)
    ELSE Num(100 * rule.markupPercentage.d + rule.markupPercentage.n,
             100 * rule.markupPercentage.d)

\* the result was computed from net cost x: returned as it is beside an
\* override price, else rounded and marked up
NetCostUsed(x) ==
    /\ ~last.result.throws
    /\ IF Truthy(Opt(PricedRule, "overridePrice"))
       THEN last.result.netCost = x
       ELSE /\ IsRound2Of(x, last.result.netCost)
            /\ IsRound2Of(Mul(x, MarkupFactor(PricedRule)), last.result.finalPrice)

\* C1 (as claimed): whenever the resolved rule has an overridePrice set, 0
\* included, finalPrice is the overridePrice and netCost the net cost of the
\* rule's mode.
C1_OverrideAlwaysWins ==
    (PricedTyped /\ PricedRule # Undefined /\ PricedRule.overridePrice # Undefined)
    => /\ ~last.result.throws
       /\ last.result.finalPrice = PricedRule.overridePrice
       /\ last.result.netCost = calculateNetCost(last.context, PricedRule).value

\* C2 (as claimed): under mode AQ_NET the returned netCost equals netPrice when
\* netPrice > 0 and listPrice otherwise, and is not zero when netPrice is zero
\* and listPrice positive.
C2_AqNetCostIsNetPrice ==
    (PricedTyped /\ PricedRule # Undefined /\ PricedRule.pricingMode = AQ_NET)
    => /\ ~last.result.throws
       /\ last.result.netCost = NetOrList(last.context)
       /\ (~Gt0(last.context.NetPrice) /\ Gt0(last.context.ListPrice))
          => last.result.netCost # Num(0, 1)

\* C2 (amended): under mode AQ_NET the returned netCost is netPrice when
\* netPrice > 0 and listPrice otherwise, rounded to 2 decimals (returned
\* unrounded beside an applied override price); with a net price that is not
\* positive it is positive as soon as listPrice is at least 0.005.
C2_AqNetCostRounded ==
    (PricedTyped /\ PricedRule # Undefined /\ PricedRule.pricingMode = AQ_NET)
    => /\ ~last.result.throws
       /\ IF Truthy(PricedRule.overridePrice)
          THEN last.result.netCost = NetOrList(last.context)
          ELSE IsRound2Of(NetOrList(last.context), last.result.netCost)
       /\ (/\ ~Gt0(last.context.NetPrice)
           /\ 200 * last.context.ListPrice.n >= last.context.ListPrice.d)
          => Gt0(last.result.netCost)

C2_Witness ==
    /\ PricedTyped /\ PricedRule # Undefined /\ PricedRule.pricingMode = AQ_NET
    /\ last.context.NetPrice = Num(0, 1)
    /\ last.context.ListPrice = Num(101, 100)
    /\ last.result.netCost = Num(101, 100)

\* C3 (as claimed): under mode LIST_DISCOUNT netCost equals listPrice times
\* (1 - d/100) for each numeric token d of the chain split on '/', in order.
C3_ChainProductExact ==
    (PricedTyped /\ PricedRule # Undefined /\ PricedRule.pricingMode = LIST_DISCOUNT)
    => /\ ~last.result.throws
       /\ last.result.netCost =
              ChainProduct(last.context.ListPrice, split(ChainOf(PricedRule), "/"))

\* C3 (amended): under mode LIST_DISCOUNT netCost equals that product rounded
\* to 2 decimals; chain 50/10 on 100 gives 45.00, and chain 20/10 on 200 with
\* markup 15 gives netCost 144.00 and finalPrice 165.60.
C3_ChainProductRounded ==
    (PricedTyped /\ PricedRule # Undefined /\ PricedRule.pricingMode = LIST_DISCOUNT)
    => /\ ~last.result.throws
       /\ IsRound2Of(ChainProduct(last.context.ListPrice,
                                  split(ChainOf(PricedRule), "/")),
                     last.result.netCost)
       /\ (/\ ChainOf(PricedRule) = <<"5", "0", "/", "1", "0">>
           /\ last.context.ListPrice = Num(100, 1))
          => last.result.netCost = Num(45, 1)
       /\ (/\ ChainOf(PricedRule) = <<"2", "0", "/", "1", "0">>
           /\ last.context.ListPrice = Num(200, 1)
           /\ PricedRule.markupPercentage = Num(15, 1)
           /\ PricedRule.overridePrice = Undefined)
          => /\ last.result.netCost = Num(144, 1)
             /\ last.result.finalPrice = Num(16560, 100)

C3_Witness ==
    /\ PricedTyped /\ PricedRule # Undefined /\ PricedRule.pricingMode = LIST_DISCOUNT
    /\ ChainOf(PricedRule) = <<"2", "0", "/", "1", "0">>
    /\ last.context.ListPrice = Num(200, 1)
    /\ last.result.netCost = Num(144, 1)
    /\ last.result.finalPrice = Num(16560, 100)

\* the net cost of the rule's mode before any rounding
UnroundedNet(context, rule) ==
    IF Opt(rule, "pricingMode") = LIST_DISCOUNT
    THEN ChainProduct(context.ListPrice, split(ChainOf(rule), "/"))
    ELSE IF Truthy(Opt(rule, "pricingMode")) /\ rule.pricingMode # AQ_NET
    THEN context.ListPrice
    ELSE NetOrList(context)

\* C4 (as claimed): without overridePrice, in either mode, finalPrice is the
\* unrounded net cost times (1 + markup/100), rounded to 2 decimals once.
C4_MarkupOnUnroundedNet ==
    (PricedTyped /\ PricedRule # Undefined /\ PricedRule.overridePrice = Undefined)
    => /\ ~last.result.throws
       /\ IsRound2Of(Mul(UnroundedNet(last.context, PricedRule),
                         MarkupFactor(PricedRule)),
                     last.result.finalPrice)

\* C4 (amended): without overridePrice, finalPrice is the net cost times
\* (1 + markup/100) rounded to 2 decimals, an absent markup counting as 0,
\* where the net cost is unrounded under AQ_NET and is the chain product
\* already rounded to 2 decimals (the returned netCost) under LIST_DISCOUNT;
\* net cost 50 with markup 20 gives 60.00.
C4_MarkupOnNetCost ==
    (PricedTyped /\ PricedRule # Undefined /\ PricedRule.overridePrice = Undefined)
    => /\ ~last.result.throws
       /\ IF PricedRule.pricingMode = LIST_DISCOUNT
          THEN /\ IsRound2Of(UnroundedNet(last.context, PricedRule),
                             last.result.netCost)
               /\ IsRound2Of(Mul(last.result.netCost, MarkupFactor(PricedRule)),
                             last.result.finalPrice)
          ELSE IsRound2Of(Mul(UnroundedNet(last.context, PricedRule),
                              MarkupFactor(PricedRule)),
                          last.result.finalPrice)
       /\ (/\ PricedRule.pricingMode = AQ_NET
           /\ last.context.NetPrice = Num(50, 1)
           /\ PricedRule.markupPercentage = Num(20, 1))
          => last.result.finalPrice = Num(60, 1)

C4_Witness ==
    /\ PricedTyped /\ PricedRule # Undefined /\ PricedRule.overridePrice = Undefined
    /\ PricedRule.pricingMode = LIST_DISCOUNT
    /\ PricedRule.markupPercentage = Num(100, 1)
    /\ ChainOf(PricedRule) = <<"5", "0">>
    /\ last.context.ListPrice = Num(101, 100)
    /\ last.result.netCost = Num(51, 100)
    /\ last.result.finalPrice = Num(102, 100)

\* C5 (as claimed): on every return path of calculatePrice both netCost and
\* finalPrice are rounded to 2 decimal places.
C5_BothRounded ==
    (PricedTyped /\ ~last.result.throws)
    => IsCents(last.result.netCost) /\ IsCents(last.result.finalPrice)

\* C7 (as claimed): with no pricingMode, with a mode other than AQ_NET and
\* LIST_DISCOUNT, or with no rule at all, the net cost used is listPrice
\* whatever netPrice is.
C7_NoModeUsesListPrice ==
    (/\ PricedTyped
     /\ \/ PricedRule = Undefined
        \/ PricedRule.pricingMode \notin {AQ_NET, LIST_DISCOUNT})
    => NetCostUsed(last.context.ListPrice)

\* C7 (amended): with a mode that is a non-empty string other than AQ_NET and
\* LIST_DISCOUNT the net cost used is listPrice whatever netPrice is; with no
\* pricingMode (or an empty one), or with no rule at all, the mode is AQ_NET:
\* the net cost used is netPrice when netPrice > 0 and listPrice otherwise.
C7_OtherModeUsesListPrice ==
    /\ (/\ PricedTyped /\ PricedRule # Undefined
        /\ Truthy(PricedRule.pricingMode)
        /\ PricedRule.pricingMode \notin {AQ_NET, LIST_DISCOUNT})
       => NetCostUsed(last.context.ListPrice)
    /\ (/\ PricedTyped
        /\ \/ PricedRule = Undefined
           \/ ~Truthy(PricedRule.pricingMode))
       => NetCostUsed(NetOrList(last.context))

C7_Witness ==
    /\ PricedTyped /\ PricedRule # Undefined
    /\ PricedRule.pricingMode = FOO
    /\ PricedRule.overridePrice = Undefined
    /\ last.context.NetPrice = Num(50, 1)
    /\ last.context.ListPrice = Num(100, 1)
    /\ last.result.netCost = Num(100, 1)

\* C8 (as claimed): calculatePrice never throws and never returns an undefined
\* or NaN netCost or finalPrice, whatever is missing or malformed in the
\* context or the rule.
C8_NeverThrowsNorNaN ==
    Priced
    => /\ ~last.result.throws
       /\ last.result.netCost \notin {Undefined, NaN}
       /\ last.result.finalPrice \notin {Undefined, NaN}

\* the elements of an array
Elements(array) == {array[i] : i \in 1..Len(array)}

\* C6: the keys of the rule map are uppercase and no key occurs twice; two
\* contexts whose manufacturer names differ only in letter case get the same
\* result; a manufacturer without a rule of its own is priced as a manufacturer
\* whose own rule is the DEFAULT rule (as with no rule when there is no DEFAULT).
C6_UppercaseKeysAndDefault ==
    /\ \A i \in 1..Len(rules) : rules[i].k = toUpperCase(rules[i].k)
    /\ \A i, j \in 1..Len(rules) : rules[i].k = rules[j].k => i = j
    /\ Priced
       => /\ \A c \in EngineContexts :
                (/\ toUpperCase(c.Manufacturer.s) = toUpperCase(last.context.Manufacturer.s)
                 /\ c.ListPrice = last.context.ListPrice
                 /\ c.NetPrice = last.context.NetPrice)
                => calculatePrice(rules, c) = last.result
          /\ MapGet(rules, toUpperCase(last.context.Manufacturer.s)) = Undefined
             => last.result =
                  calculatePrice(
                      IF MapGet(rules, DEFAULT) = Undefined THEN <<>>
                      ELSE <<[k |-> toUpperCase(last.context.Manufacturer.s),
                              v |-> MapGet(rules, DEFAULT)]>>,
                      last.context)

C6_Witness ==
    /\ Priced
    /\ last.context.Manufacturer.s = NameAb
    /\ MapGet(rules, NameAB) # Undefined
    /\ MapGet(rules, NameAB).markupPercentage = Num(20, 1)
    /\ MapGet(rules, DEFAULT) # Undefined
    /\ last.result.finalPrice = Num(120, 1)

\* C9 (as claimed): when a setRule(m, r) call has completed, getRules()
\* contains r and the stored pricingRules are the rules in memory.
C9_ReadYourWrites ==
    last.op = "setRuleDone"
    => /\ last.rule \in Elements(MapValues(rules))
       /\ db.exists
       /\ Elements(db.pricingRules) = Elements(MapValues(rules))

\* C10: a setRule(m, r) step leaves exactly r under the key upper(m) and every
\* other key with the rule it had, adding no other key.
C10_SetRuleReplacesWholesale ==
    [][last'.op = "setRule"
       => /\ MapGet(rules', toUpperCase(last'.manufacturer)) = last'.rule
          /\ \A k \in {rules[i].k : i \in 1..Len(rules)}
                      \cup {rules'[i].k : i \in 1..Len(rules')} :
                k # toUpperCase(last'.manufacturer)
                => MapGet(rules', k) = MapGet(rules, k)]_vars

\* a setRule has just replaced a rule that had an override price by a rule
\* without one, the DEFAULT rule being in the map too
C10_Witness ==
    /\ last.op = "setRule"
    /\ last.replaced # Undefined
    /\ last.replaced.overridePrice # Undefined
    /\ last.rule.overridePrice = Undefined
    /\ toUpperCase(last.manufacturer) # DEFAULT
    /\ MapGet(rules, toUpperCase(last.manufacturer)).overridePrice = Undefined
    /\ MapGet(rules, DEFAULT) # Undefined

\* C18 (as claimed): once the spreadsheet service has answered with the rows of
\* the sheet (an empty sheet included), a getVariants call made less than
\* CACHE_TTL later is answered without asking the service, and a call made
\* CACHE_TTL or more later asks it again.
C18_CachedForTtl ==
    (last.op = "getVariants" /\ last.fetched)
    => (last.at - last.fetchedAt < CACHE_TTL <=> ~last.external)

\* a step of syncProduct that has built the payload
Built == "locals" \in DOMAIN last /\ last.locals.shopifyData # Undefined

\* the final price of the product of the last step, as the engine computes it
FinalPriceOf(aqProduct) ==
    calculatePrice(rules, Context(BasePrice(aqProduct), Undefined,
                                  aqProduct.mfrName)).finalPrice

IsNumberValue(v) == "t" \in DOMAIN v /\ v.t = "number"

\* C14 (as claimed): the payload of a product without custom variants has one
\* variant, titled 'Default Title', priced at the product's final price, a
\* number, with the model number as SKU, and declares no option.
C14_DefaultVariant ==
    (Built /\ Len(last.locals.customVariants) = 0)
    => LET data == last.locals.shopifyData
       IN  /\ Len(data.variants) = 1
           /\ data.variants[1].option1 = DefaultTitle
           /\ data.variants[1].sku = last.product.models.mfrModel.s
           /\ data.options = Undefined
           /\ IsNumberValue(data.variants[1].price)
           /\ data.variants[1].price = FinalPriceOf(last.product)

\* C15 (as claimed): the payload of a product with n >= 1 custom variants has
\* n variants in row order, each priced at the final price plus the row's
\* modifier, with SKU model number + suffix and the row's option value, and
\* declares the one option named by the first row.
C15_VariantPerRow ==
    (Built /\ Len(last.locals.customVariants) > 0)
    => LET data == last.locals.shopifyData
           rows == last.locals.customVariants
       IN  /\ Len(data.variants) = Len(rows)
           /\ data.options = Arr(<<[name |-> rows[1].optionName.s]>>)
           /\ \A i \in 1..Len(rows) :
                 /\ data.variants[i].sku =
                        last.product.models.mfrModel.s \o rows[i].skuMod.s
                 /\ data.variants[i].option1 = rows[i].optionValue.s
                 /\ IsNumberValue(data.variants[i].price)
                 /\ data.variants[i].price =
                        Add(FinalPriceOf(last.product), rows[i].priceMod)

\* src or attachment of an image entry is empty: absent or ''
EmptyField(v) == v = Undefined \/ v = Str(<<>>)

\* C16 (as claimed): with an override the image list is the one entry holding
\* the override as a non-empty attachment and no src; without, it is the
\* supplier's picture URLs in order; no entry has src and attachment both empty.
C16_OverrideReplacesImages ==
    Built
    => LET images == last.locals.shopifyData.images
           pictures == IF Truthy(last.product.pictures)
                       THEN last.product.pictures.a ELSE <<>>
       IN  /\ last.locals.overrideImage # Null
                => /\ Len(images) = 1
                   /\ images[1].src = Undefined
                   /\ ~EmptyField(images[1].attachment)
           /\ last.locals.overrideImage = Null
                => /\ Len(images) = Len(pictures)
                   /\ \A i \in 1..Len(images) :
                         /\ images[i].src = pictures[i].url
                         /\ images[i].attachment = Undefined
           /\ \A i \in 1..Len(images) :
                 ~(EmptyField(images[i].src) /\ EmptyField(images[i].attachment))

\* C17 (as claimed): a failure of an override resolver is never why
\* syncProduct ends without having pushed the product.
C17_ResolverFailureSwallowed ==
    ("locals" \in DOMAIN last /\ last.locals.outcome = "failed")
    => last.locals.error # "getVariants"

\* a step of syncProduct that received the storefront's answer to a push
PushedOk ==
    /\ "locals" \in DOMAIN last /\ last.op = "push"
    /\ last.locals.outcome \in {"synced", "recovered"}

C20_FailureRecorded ==
    ("locals" \in DOMAIN last /\ last.stage = "main"
        /\ last.locals.outcome = "failed"
        /\ last.locals.error \in {"storefront", "trial"})
    => \E i \in 1..Len(products) :
          /\ products[i].aqProductId = last.product.productId
          /\ products[i].status = "error"
          /\ products[i].syncError # Undefined

\* x is an element of the sequence s
InSeq(x, s) == \E i \in 1..Len(s) : s[i] = x

\* C11 (as claimed): once setEnabledManufacturers has removed a manufacturer
\* from the enabled set, no product of that manufacturer is left staged: those
\* that were have become archived.
C11_RemovedAreArchived ==
    last.op = "setEnabledManufacturers"
    => \A i \in 1..Len(products) :
          (InSeq(products[i].aqMfrId, last.before)
             /\ ~InSeq(products[i].aqMfrId, last.ids))
          => products[i].status # "staged"

\* C12: the collection never holds two documents with one supplier product
\* id, and an upsert of ingest leaves the document of the product with
\* lastIngested at the time of the run, not earlier than it was, and a document
\* that existed otherwise as it was.
C12_IngestUpserts ==
    /\ \A i, j \in 1..Len(products) :
          products[i].aqProductId = products[j].aqProductId => i = j
    /\ last.op = "upsert"
          => \E i \in 1..Len(products) :
                /\ products[i].aqProductId = last.productId
                /\ products[i].lastIngested = last.at
                /\ \A k \in 1..Len(last.before) :
                      /\ last.before[k].lastIngested <= last.at
                      /\ [products[i] EXCEPT
                             !.lastIngested = last.before[k].lastIngested]
                            = last.before[k]

\* an upsert found the document of the product, ingested earlier, and left it
\* the only one of the product, with the later time
C12_Witness ==
    /\ last.op = "upsert" /\ Len(last.before) = 1
    /\ last.before[1].lastIngested < last.at
    /\ \E i \in 1..Len(products) :
          /\ products[i].aqProductId = last.productId
          /\ products[i].lastIngested = last.at

\* the changes of status the state machine names: by a sync that succeeded, by
\* a sync that failed, by a pricing reapply, by the disabling of a manufacturer
ClaimedChange(op, from, to) ==
    \/ op = "syncToShopify" /\ from \in {"staged", "error"} /\ to = "synced"
    \/ op = "syncToShopify" /\ from \in {"staged", "synced"} /\ to = "error"
    \/ op = "reapplyPricingRules" /\ from = "synced" /\ to = "staged"
    \/ op = "setEnabledManufacturers" /\ to = "archived"

\* C13 (as claimed): every change of a product's status is one of the changes
\* the state machine names.
C13_StatusMachine ==
    [][\A i \in 1..Len(products) :
          products'[i].status # products[i].status
          => ClaimedChange(last'.op, products[i].status, products'[i].status)]_vars

\* C13 (amended): every change of a product's status is one of the changes the
\* state machine names, or a change to staged by a manual image upload, image
\* delete or variant replace.
C13_StatusMachineWithOverrides ==
    [][\A i \in 1..Len(products) :
          products'[i].status # products[i].status
          => \/ ClaimedChange(last'.op, products[i].status, products'[i].status)
             \/ /\ last'.op \in {"imageUpload", "imageDelete", "variantsReplace"}
                /\ products'[i].status = "staged"]_vars

\* an image upload has staged a product whose sync had failed
C13_Witness ==
    /\ last.op = "imageUpload" /\ last.from = "error"
    /\ products[last.row].status = "staged"

\* C21 (as claimed): when the supplier fails to list the products of an
\* enabled manufacturer that is not the last one of a bulk run, the run goes on
\* to fetch the products of the next enabled manufacturer.
C21_FailureAbortsOneFetch ==
    [][\A task \in tasks :
          (task.pc = "getProducts" /\ Len(task.mfrs) > 1
              /\ last'.op = "syncFailed" /\ last'.id = task.id)
          => \E t \in tasks' :
                t.id = task.id /\ t.pc = "getProducts" /\ t.mfrs = Tail(task.mfrs)]_vars

\* C22 (as claimed): syncSpecificProduct returns normally only for a product
\* that was pushed: when the syncProduct it called has returned, the
\* storefront holds a listing with the product's handle and the push
\* succeeded.
C22_ReturnsOnlyWhenPushed ==
    ("locals" \in DOMAIN last /\ last.stage = "specific"
        /\ last.locals.outcome # "")
    => /\ last.locals.outcome \in {"synced", "recovered"}
       /\ \E i \in 1..Len(shopify.listings) :
             shopify.listings[i].handle = last.locals.shopifyData.handle

\* the requests for a push: the first of a call of syncProduct, and its retry
FirstPush == {"create", "update"}
RetryPush == {"retryCreate", "retryUpdate"}

\* the storefront holds a listing of that handle with that content
Listed(shop, handle, data) ==
    \E i \in 1..Len(shop.listings) :
       shop.listings[i].handle = handle /\ shop.listings[i].data = data

\* C24 (as claimed): in a run no product is the subject of more than two
\* requests to create or update its listing.
C24_AtMostTwoPushesPerRun ==
    \A task \in tasks : \A i \in 1..Len(task.pushes) :
       Cardinality({k \in 1..Len(task.pushes) : task.pushes[k] = task.pushes[i]}) <= 2

\* C24 (amended): within a call of syncProduct, a first push rejected with
\* 'trial accounts' is followed by the lookup by handle of the retry, with the
\* payload kept; a first push rejected otherwise ends the call as failed; the
\* retry looks the handle up and updates the listing found or creates one,
\* with the payload without its images; the retry is only made after a
\* 'trial accounts' rejection and ends the call: as a success when the
\* storefront applied it, which then holds the payload without images, as
\* failed otherwise.
C24_RetryOncePerCall ==
    [][\A task \in tasks :
          (last'.op \in {"push", "findProductByHandle"} /\ last'.id = task.id)
          => LET after == last'.locals
                 data == task.locals.shopifyData
                 waits(pc) == \E t \in tasks' :
                                 /\ t.id = task.id /\ t.pc = pc
                                 /\ t.locals.shopifyData = data
                                 /\ t.pushes = task.pushes
             IN  /\ task.pc \in FirstPush
                      => /\ task.locals.error = ""
                         /\ after.error = "trial"
                               => /\ after.outcome = ""
                                  /\ \E t \in tasks' :
                                        /\ t.id = task.id /\ t.pc = "retryFind"
                                        /\ t.locals.shopifyData = data
                         /\ after.error = "storefront" => after.outcome = "failed"
                         /\ after.error = "" => after.outcome = "synced"
                 /\ task.pc = "retryFind"
                      => /\ task.locals.error = "trial"
                         /\ \/ after.outcome = "failed" /\ shopify' = shopify
                            \/ after.existing # Null /\ waits("retryUpdate")
                            \/ after.existing = Null /\ waits("retryCreate")
                 /\ task.pc \in RetryPush
                      => /\ task.locals.error = "trial"
                         /\ after.outcome \in {"recovered", "failed"}
                         /\ after.outcome = "failed" => shopify' = shopify
                         /\ after.outcome = "recovered"
                               => /\ Listed(shopify', data.handle,
                                            [data EXCEPT !.images = <<>>])
                                  /\ Len(shopify'.listings) = Len(shopify.listings)
                                        + (IF task.pc = "retryCreate" THEN 1 ELSE 0)]_vars

\* the retry of a push that held images has succeeded: the listing holds the
\* payload without them
C24_Witness ==
    /\ last.op = "push" /\ last.locals.outcome = "recovered"
    /\ Len(last.locals.shopifyData.images) > 0
    /\ Listed(shopify, last.locals.shopifyData.handle,
              [last.locals.shopifyData EXCEPT !.images = <<>>])

\* s with each character outside a-z0-9 turned into a hyphen, and of the
\* hyphens so obtained those dropped that follow another
Hyphenated(s) ==
    LET kept == {i \in 1..Len(s) : IsAlnum(s[i]) \/ i = 1 \/ IsAlnum(s[i - 1])}
    IN  [k \in 1..Cardinality(kept) |->
            LET i == CHOOSE j \in kept : Cardinality({m \in kept : m < j}) = k - 1
            IN  IF IsAlnum(s[i]) THEN s[i] ELSE "-"]

\* C25: the handle is 'manufacturer-model' in lower case with each maximal
\* run of characters outside a-z0-9 replaced by one hyphen, a function of the
\* two names alone; it holds only a-z, 0-9 and '-' and no two hyphens in a row.
C25_HandleIsSlug ==
    last.op = "handle"
    => /\ last.handle =
             Hyphenated(toLowerCase(last.mfrName \o <<"-">> \o last.modelNumber))
       /\ \A i \in 1..Len(last.handle) :
             IsAlnum(last.handle[i]) \/ last.handle[i] = "-"
       /\ \A i \in 1..(Len(last.handle) - 1) :
             ~(last.handle[i] = "-" /\ last.handle[i + 1] = "-")

\* the handle of a name in upper case ending in a dot and of a model that
\* starts with a blank: the dot, the hyphen and the blank have become one hyphen
C25_Witness ==
    /\ last.op = "handle"
    /\ last.mfrName = <<"A", ".">> /\ last.modelNumber = <<" ", "b">>
    /\ last.handle = <<"a", "-", "b">>

\* the supplier product has no model number
NoModelNumber(aqProduct) ==
    ~Truthy(aqProduct.models) \/ ~Truthy(aqProduct.models.mfrModel)

\* C26: syncProduct called in a bulk run for a product without model number
\* returns without an error and without a request to the file store, the
\* spreadsheet or the storefront and without a write to the staged products,
\* and the run goes on with the product after it, or past its main list.
C26_NoModelSkipped ==
    [][\A task \in tasks :
          (task.pc = "syncProduct" /\ last'.op = "syncProduct"
              /\ last'.id = task.id /\ NoModelNumber(Product(task)))
          => /\ last'.locals = [NoLocals EXCEPT !.outcome = "skipped"]
             /\ UNCHANGED <<googleSheets, googleDrive, shopify, products, stateFile>>
             /\ \E t \in tasks' :
                   /\ t.id = task.id /\ t.pushes = task.pushes
                   /\ t.locals = NoLocals
                   /\ IF Len(task.queue) > 1
                      THEN t.pc = "syncProduct" /\ t.queue = Tail(task.queue)
                      ELSE t.stage \in {"force", "specific"} /\ t.queue = <<>>]_vars

\* the product without model number has been skipped and the run waits to
\* sync the product listed after it
C26_Witness ==
    /\ last.op = "syncProduct" /\ last.product = ProductNoModel
    /\ last.locals.outcome = "skipped"
    /\ \E t \in tasks : t.id = last.id /\ t.pc = "syncProduct"
                           /\ t.queue = <<ProductC>>

\* C27 (as claimed): no step other than a call of setEnabledManufacturers
\* changes what getEnabledManufacturers returns, a sync run that completes and
\* saves its time included, and setEnabledManufacturers leaves the time of the
\* last sync as it was.
C27_EnabledSetDurable ==
    [][IF last'.op = "setEnabledManufacturers"
       THEN stateFile'.lastSync = stateFile.lastSync
       ELSE getEnabledManufacturers(stateFile') = getEnabledManufacturers(stateFile)]_vars

\* C30 (as claimed): the listing that the sync of a product finds by handle
\* and updates holds the payload of that product: the manufacturer name and the
\* model number of the listing are the product's.
C30_UpdatesOwnListing ==
    [][\A task \in tasks :
          (task.pc \in {"update", "retryUpdate"} /\ last'.op = "push"
              /\ last'.id = task.id
              /\ last'.locals.outcome \in {"synced", "recovered"})
          => \A i \in 1..Len(shopify.listings) :
                shopify.listings[i].id = task.locals.existing.id
                => /\ shopify.listings[i].data.vendor = Product(task).mfrName.s
                   /\ shopify.listings[i].data.model_number = ModelNumber(task)]_vars

\* C29 (as claimed): with sync runs that overlap, the storefront never holds
\* two listings created for one handle.
C29_NoDuplicateWhenOverlapping ==
    \A i, j \in 1..Len(shopify.listings) :
       shopify.listings[i].data.handle = shopify.listings[j].data.handle => i = j

\* C28 (as claimed): once a call of setRule and every loadRules have
\* completed, getRules still holds the rule that setRule wrote, also when
\* the loadRules of the constructor was waiting for the storage while setRule
\* ran.
C28_SetRuleSurvivesLoadRules ==
    (tasks = {} /\ last.op = "setRuleDone")
    => MapGet(rules, toUpperCase(last.manufacturer)) = last.rule

\* C23: every request to a bulk route has been answered with status 200 and
\* the 'started' text of its route, sent before its pipeline made any step, and
\* the response is that one whether the pipeline runs, has succeeded, has
\* failed or has thrown.
C23_AckBeforeWork ==
    \A x \in tasks :
       x.response = [status |-> 200, body |-> [status |-> Started(x.route)],
                     work |-> 0]

\* the pipeline of a request has made more than one step and has thrown, and
\* the response of the request is the acknowledgment
C23_Witness ==
    \E x \in tasks :
       /\ x.outcome = "threw" /\ x.work > 1
       /\ x.response.body = [status |-> Started(x.route)]

====
